---- MODULE Spec2Model ----
(***************************************************************************)
(* PanSyncer sync engine (src/pansyncer/sync.py) with the step cycler      *)
(* (step.py), the radio part of the device registry (device_register.py)   *)
(* and the two CAT peers (rigctld, Gqrx) the engine talks to.              *)
(*                                                                         *)
(* Optional values (Python None) are sequences of length <= 1: <<>> is     *)
(* None and <<x>> is the value x.  Time is counted in whole seconds; the   *)
(* 0.1 s query interval is kept exact by comparing tenths of a second.     *)
(* One action is one call of the engine's API (or one step of a peer);     *)
(* tick() is a single action that runs every step of the handler.          *)
(***************************************************************************)
EXTENDS Integers, Sequences, FiniteSets, TLC

\* ------------------------------------------------------------------ bounds
\* Largest clock value passed to tick(now).
MaxNow == 8
\* Disturbances in one run: user inputs (nudges, step presses, sync and device
\* keys), socket faults, and replies that are not what the protocol asks for.
MaxDisturb == 2
\* Commands a peer holds unanswered; an older one is dropped beyond it.
MaxWire == 1
LogStep == 6
MaxLogNow == 16
\* Complete reply lines waiting in a socket for the engine to read.
MaxInboxLines == 1
\* cfg.sync.nudge_buffer, scaled down from its default of 10.
nudge_buffer == 1
\* cfg.sync.max_read_buffer_bytes, scaled down; counted in tokens.
max_read_buffer_bytes == 5

\* Largest value of the scheduler's clock, in tenths of a second.
MaxSchedNow == 180
\* The clock's largest value in a run with many API calls.
ShortSchedNow == 30
\* Probe invocations the scheduler dispatches in one run.
MaxFutures == 3
\* Probe invocations in a run with many API calls.
FewFutures == 2
\* register and unregister_tag calls in one run.
MaxSchedCalls == 3
\* A backoff_cap below the default that a caller may pass: 10 s, in tenths.
LowCap == 100

\* ------------------------------------------------------- program constants
rig_timeout == 2
gqrx_timeout == 2
rig_socket_recon_interval == 3
gqrx_socket_recon_interval == 3
wait_before_log_rigfreq == 5
sync_debounce_time == 3
\* rig/gqrx_freq_query_interval = 0.1 s, in tenths of a second.
freq_query_interval_tenths == 1

RoleSet == {"rig", "gqrx"}
\* The device tags that have a toggle key: cfg.devices.radios, knob, mouse.
Tags == RoleSet \cup {"knob", "mouse"}
STEPS == <<10, 100, 1000, 10000>>
\* Frequency (Hz) a peer reports when asked.
Freqs == {14200000}
\* cfg.main.ifreq of the IFreq configuration, as int(ifreq * 1e6): -0.0001 MHz.
IFreqChoices == {-100}
\* Clock advance between two calls: none (the same 0.1 s slot) or 4 s, past
\* every interval; the fine clock also advances by 1 s and 3 s.
CoarseDts == {0, 4}
FineDts == {0, 1, 3}
\* time.monotonic() when the program starts: past the reconnect interval.
StartNow == rig_socket_recon_interval + 1

None == <<>>
Some(x) == <<x>>
Val(o) == o[1]
Abs(x) == IF x < 0 THEN -x ELSE x
Other(role) == IF role = "rig" THEN "gqrx" ELSE "rig"

timeout(role) == IF role = "rig" THEN rig_timeout ELSE gqrx_timeout
recon_interval(role) ==
  IF role = "rig" THEN rig_socket_recon_interval ELSE gqrx_socket_recon_interval

\* ------------------------------------------------------------- wire format
\* A command is its verb and its optional decimal argument:
\* "f\n", "LNB_LO\n", "F <hz>\n", "LNB_LO <hz>\n".
CmdQueryF == [verb |-> "f", arg |-> None]
CmdQueryLO == [verb |-> "LNB_LO", arg |-> None]

build_cat_cmd(freq, is_lo) ==
  [verb |-> IF is_lo THEN "LNB_LO" ELSE "F", arg |-> Some(freq)]

IsSetCmd(c) == c.arg # None
IsQueryCmd(c) == c.arg = None

\* Received bytes are tokens: the text "RPRT", a blank, a decimal number,
\* other text, and the line feed.
TRprt == [k |-> "RPRT", v |-> 0]
TSp == [k |-> "sp", v |-> 0]
TNl == [k |-> "nl", v |-> 0]
TJunk == [k |-> "junk", v |-> 0]
TInt(n) == [k |-> "int", v |-> n]

LineInt(f) == <<TInt(f), TNl>>
LineRprt(n) == <<TRprt, TSp, TInt(n), TNl>>
LineBareRprt == <<TRprt, TNl>>
LineJunk == <<TJunk, TNl>>
Fragment == <<TJunk>>

NlCount(buf) == Cardinality({i \in 1..Len(buf) : buf[i] = TNl})

\* bytes.split(b'\n'): the parts between line feeds, the last one the tail.
RECURSIVE SplitNl(_)
SplitNl(buf) ==
  IF \A i \in 1..Len(buf) : buf[i] # TNl
  THEN <<buf>>
  ELSE LET i == CHOOSE j \in 1..Len(buf) :
                  buf[j] = TNl /\ \A m \in 1..(j - 1) : buf[m] # TNl
       IN <<SubSeq(buf, 1, i - 1)>> \o SplitNl(SubSeq(buf, i + 1, Len(buf)))

\* int(part): blanks around one decimal number are accepted.
RECURSIVE StripSp(_)
StripSp(part) ==
  IF part # <<>> /\ Head(part) = TSp THEN StripSp(Tail(part))
  ELSE IF part # <<>> /\ part[Len(part)] = TSp
  THEN StripSp(SubSeq(part, 1, Len(part) - 1))
  ELSE part

ParsesAsInt(part) == Len(StripSp(part)) = 1 /\ StripSp(part)[1].k = "int"
IntOf(part) == StripSp(part)[1].v

HasSp(part) == \E i \in 1..Len(part) : part[i] = TSp
\* part.split(b" ", 1)[1]
CodeOf(part) ==
  LET i == CHOOSE j \in 1..Len(part) :
             part[j] = TSp /\ \A m \in 1..(j - 1) : part[m] # TSp
  IN SubSeq(part, i + 1, Len(part))

\* ------------------------------------------------------ scheduler data
\* SchedulerConfig, times in tenths of a second and the jitter in percent.
reconnect_interval == 30
backoff_cap == 600
jitter == 10

\* The probes DeviceHandler registers: RigChecker.check_rig and
\* KnobController.ensure_connected.
Fns == {"check_rig", "ensure_connected"}
FnOrder == <<"check_rig", "ensure_connected">>

\* A tag is the sequence of the parts of its text: 'rig', 'knob', and the
\* default tags 'rigchecker' and 'knobcontroller' (the lower-cased class name
\* of the probe's owner) that register() makes when no tag is passed.
TagRig == <<"rig">>
default_tag(fn) ==
  IF fn = "check_rig" THEN <<"rig", "checker">> ELSE <<"knob", "controller">>
SchedTags == {TagRig} \cup {default_tag(fn) : fn \in Fns}

\* str.startswith
StartsWith(text, prefix) ==
  Len(prefix) <= Len(text) /\ SubSeq(text, 1, Len(prefix)) = prefix

\* TaskRecord(fn, tag, next_run, interval, backoff, generation)
TaskRecord(tag, next_run, interval, backoff, generation) ==
  [tag |-> tag, next_run |-> next_run, interval |-> interval,
   backoff |-> backoff, failures |-> 0, future |-> None,
   generation |-> generation, last_duration |-> 0]

\* ReconnectScheduler.__init__ with its jitter and backoff_cap; futures are
\* the invocations submitted to the executor, orphans the invocations whose
\* task unregister_tag removed while they were out,
\* calls the number of register and unregister_tag calls so far, budget what
\* this run may spend: API calls, invocations and clock.
SchedBudget(calls, futures, last) ==
  [calls |-> calls, futures |-> futures, now |-> last]

NewScheduler(jit, cap) ==
  [tasks |-> [fn \in Fns |-> None], generation |-> 0, result_queue |-> <<>>,
   shutdown |-> FALSE, jitter |-> jit, backoff_cap |-> cap, now |-> 0,
   calls |-> 0, budget |-> SchedBudget(MaxSchedCalls, MaxFutures, MaxSchedNow),
   futures |-> <<>>, orphans |-> {}]

\* ----------------------------------------------------------- the band table
\* DEFAULT_BANDS, frequencies in units of 100 Hz.
DEFAULT_BANDS ==
  <<[name |-> "160m", start |-> 18100, goto |-> 18430, end |-> 20000],
    [name |-> " 80m", start |-> 35000, goto |-> 36030, end |-> 38000],
    [name |-> " 60m", start |-> 53515, goto |-> 53540, end |-> 53665],
    [name |-> " 40m", start |-> 70000, goto |-> 70530, end |-> 72000],
    [name |-> " 30m", start |-> 101000, goto |-> 101300, end |-> 101500],
    [name |-> " 20m", start |-> 140000, goto |-> 141250, end |-> 143500],
    [name |-> " 17m", start |-> 180680, goto |-> 181200, end |-> 181680],
    [name |-> " 15m", start |-> 210000, goto |-> 211510, end |-> 214500],
    [name |-> " 12m", start |-> 248900, goto |-> 249400, end |-> 249900],
    [name |-> " 10m", start |-> 280000, goto |-> 283200, end |-> 297000],
    [name |-> "  6m", start |-> 500000, goto |-> 501000, end |-> 520000]>>

\* Bands.__init__ with the default table.
NewBands ==
  [goto |-> [i \in 1..Len(DEFAULT_BANDS) |-> DEFAULT_BANDS[i].goto],
   call |-> None]

\* ------------------------------------------------------------------- state
VARIABLES
  radio,        \* self.radio: role -> PeerState
  sync_on,      \* self.sync_on
  wanted_sync,  \* self._wanted_sync
  shut,         \* self._shutdown
  sync_time,    \* self._sync_time
  sync_lead,    \* self._sync_lead
  ifreq,        \* self.ifreq, in Hz (None: Direct mode)
  devices,      \* DeviceRegister._devices, the radio tags
  index,        \* StepController.index (0-based)
  now,          \* the clock value of the latest tick
  raised,       \* an exception escaped tick()
  wire,         \* role -> commands the peer has received and not answered
  inbox,        \* role -> bytes the peer has written and the engine not read
  spent,        \* disturbances so far
  last_call,    \* the latest DeviceRegister call: what it returned and fired
  sched,        \* the ReconnectScheduler, its workers and its clock
  bands,        \* Bands._bands (the goto column) and the latest Bands call
  env,          \* the environment of this run: what sockets, peers, clock
                \* and user may do
  freq_log      \* the frequency log: log_file, _last_rig_change,
                \* _rig_reported, the lines written, and whether the Rig
                \* frequency has stayed the same since the latest line

vars == <<radio, sync_on, wanted_sync, shut, sync_time, sync_lead, ifreq,
          devices, index, now, raised, wire, inbox, spent, last_call, sched,
          bands, env, freq_log>>

\* One PeerState as SyncManager.__init__ builds it.
InitPeer ==
  [sock |-> FALSE, recon_timestamp |-> 0, freq_cur |-> None,
   freq_prev |-> Some(0), freq_sent |-> None, freq_delta |-> 0,
   freq_delta_sent |-> 0, is_busy |-> None, send_timestamp |-> 0,
   recv_buf |-> <<>>, command |-> None]

Empty == [r \in RoleSet |-> <<>>]

\* The state SyncManager.__init__, StepController.__init__ and the device
\* registry leave, in Direct or IFreq mode, with the radios the command line
\* enabled.
\* The frequency log as SyncManager.__init__ leaves it (sync.py 112-116):
\* a file only if a path is configured and the Rig is enabled.
NewLog(path, rig) ==
  [file |-> path /\ rig, last_rig_change |-> None, rig_reported |-> TRUE,
   lines |-> <<>>, steady |-> TRUE]

StartWith(path) ==
  /\ radio = [r \in RoleSet |-> InitPeer]
  /\ sync_on = TRUE
  /\ wanted_sync = TRUE
  /\ shut = FALSE
  /\ sync_time = 0
  /\ sync_lead = None
  /\ ifreq \in {None} \cup {Some(f) : f \in IFreqChoices}
  /\ devices \in {{"rig", "gqrx"}, {"rig"}, {"gqrx"}}
  /\ index = 1
  /\ now = StartNow
  /\ raised = FALSE
  /\ wire = Empty
  /\ inbox = Empty
  /\ spent = 0
  /\ last_call = None
  /\ sched = NewScheduler(jitter, backoff_cap)
  /\ bands = NewBands
  /\ freq_log = NewLog(path, "rig" \in devices)

\* freq_log_path is None unless configured (config.py).
Start == StartWith(FALSE)

IoKinds == {"ok", "idle", "block", "send_err", "hup", "eof", "recv_err"}
ReplyKinds == {"proper", "error", "bare", "junk", "fragment"}

\* Every socket outcome and reply, the coarse clock.
Init ==
  /\ Start
  /\ env = [io |-> IoKinds, replies |-> ReplyKinds, dts |-> CoarseDts,
            budget |-> MaxDisturb, last |-> MaxNow]

get_step == STEPS[index + 1]
enabled(e, role) == role \in e.devices

\* The part of the state the engine's methods change, as one record.
Eng ==
  [radio |-> radio, sync_on |-> sync_on, sync_time |-> sync_time,
   sync_lead |-> sync_lead, devices |-> devices, raised |-> FALSE,
   wire |-> wire, inbox |-> inbox, log |-> freq_log, clock |-> now]

\* ------------------------------------------------------- socket handling
\* _cleanup_socket as the "zeroed on socket loss" reading would have it.
cleanup_socket_zeroing(e, role) ==
  [e EXCEPT !.radio[role] =
              [e.radio[role] EXCEPT !.sock = FALSE, !.recv_buf = <<>>,
                                    !.freq_cur = None, !.freq_sent = None,
                                    !.freq_delta = 0, !.freq_delta_sent = 0,
                                    !.is_busy = None, !.command = None],
            !.sync_on = FALSE,
            !.wire[role] = <<>>,
            !.inbox[role] = <<>>]

\* _cleanup_socket: close, clear the buffer, disable sync.  Closing the
\* connection also discards what was in transit on it.
cleanup_socket(e, role) ==
  [e EXCEPT !.radio[role].sock = FALSE,
            !.radio[role].recv_buf = <<>>,
            !.sync_on = FALSE,
            !.wire[role] = <<>>,
            !.inbox[role] = <<>>]

\* reconnect_socket(now, role) that also reconnects when exactly
\* recon_interval has passed.
reconnect_socket_at_interval(e, t, role) ==
  LET rdo == e.radio[role] IN
  IF enabled(e, role) /\ ~rdo.sock /\ t - rdo.recon_timestamp >= recon_interval(role)
  THEN [e EXCEPT !.radio[role].sock = TRUE,
                 !.radio[role].recon_timestamp = t]
  ELSE IF ~enabled(e, role) /\ rdo.sock
  THEN cleanup_socket(e, role)
  ELSE e

\* reconnect_socket(now, role)
reconnect_socket(e, t, role) ==
  LET rdo == e.radio[role] IN
  IF enabled(e, role) /\ ~rdo.sock /\ t - rdo.recon_timestamp > recon_interval(role)
  THEN [e EXCEPT !.radio[role].sock = TRUE,
                 !.radio[role].recon_timestamp = t]
  ELSE IF ~enabled(e, role) /\ rdo.sock
  THEN cleanup_socket(e, role)
  ELSE e

\* ------------------------------------------------------------ reply parsing
\* The success branch of a "RPRT 0" line (sync.py 474-485).
rprt_success(rdo) ==
  LET a == IF rdo.freq_sent # None
           THEN [rdo EXCEPT !.freq_prev = rdo.freq_cur,
                            !.freq_cur = rdo.freq_sent,
                            !.freq_sent = None]
           ELSE rdo
  IN IF a.freq_delta_sent # 0
     THEN [a EXCEPT !.freq_delta = a.freq_delta - a.freq_delta_sent,
                    !.freq_delta_sent = 0]
     ELSE [a EXCEPT !.freq_delta = 0]

\* An integer line (sync.py 497-503).
freq_reply(rdo, freq) ==
  IF Some(freq) # rdo.freq_prev
  THEN [rdo EXCEPT !.freq_prev = rdo.freq_cur, !.freq_cur = Some(freq)]
  ELSE rdo

\* "Clear sent and delta on error" (sync.py 505-508).
reply_error(rdo) == [rdo EXCEPT !.freq_sent = None, !.freq_delta = 0]

\* One complete line of the loop at sync.py 457-511.  A "RPRT" line without
\* a blank leaves code = None, and code.decode() in the error branch raises
\* AttributeError: the peer state is left as it was before the line.
handle_line(rdo, part, incomplete) ==
  LET done(r) == [r EXCEPT !.recv_buf = incomplete, !.is_busy = None] IN
  IF part = <<>>
  THEN [rdo |-> rdo, raised |-> FALSE, changed |-> FALSE]
  ELSE IF Head(part) = TRprt
  THEN IF ~HasSp(part)
       THEN [rdo |-> rdo, raised |-> TRUE, changed |-> FALSE]
       ELSE IF CodeOf(part) # <<>> /\ CodeOf(part) = <<TInt(0)>>
       THEN [rdo |-> done(rprt_success(rdo)), raised |-> FALSE,
             changed |-> FALSE]
       ELSE [rdo |-> done(reply_error(rdo)), raised |-> FALSE,
             changed |-> FALSE]
  ELSE IF ParsesAsInt(part)
  THEN [rdo |-> done(freq_reply(rdo, IntOf(part))), raised |-> FALSE,
        changed |-> Some(IntOf(part)) # rdo.freq_prev]
  ELSE [rdo |-> done(reply_error(rdo)), raised |-> FALSE, changed |-> FALSE]

RECURSIVE handle_lines(_, _, _)
handle_lines(rdo, complete, incomplete) ==
  IF complete = <<>>
  THEN [rdo |-> rdo, raised |-> FALSE, changed |-> FALSE]
  ELSE LET r == handle_line(rdo, Head(complete), incomplete) IN
       IF r.raised
       THEN r
       ELSE LET rest == handle_lines(r.rdo, Tail(complete), incomplete) IN
            [rest EXCEPT !.changed = r.changed \/ rest.changed]

\* buf.extend(data) and the trim from the head (sync.py 449-452).
extend_buf(recv_buf, data) ==
  LET buf == recv_buf \o data IN
  IF Len(buf) > max_read_buffer_bytes
  THEN SubSeq(buf, Len(buf) - max_read_buffer_bytes + 1, Len(buf))
  ELSE buf

\* "New frequency present" on the Rig (sync.py 499-501).  The two
\* attributes are read only by _log_rig_change and only behind "log_file is
\* not None", and a log_file that is None stays None: without a file they
\* are kept as they are.
rig_change(log, t) ==
  IF log.file
  THEN [log EXCEPT !.last_rig_change = Some(t), !.rig_reported = FALSE]
  ELSE log

\* _process_incoming(role, now); k is what recv() did, now is e.clock.
process_incoming(e, role, k) ==
  LET rdo == e.radio[role]
      data == e.inbox[role]
  IN
  IF k = "recv_err" \/ k = "eof" \/ data = <<>>
  THEN cleanup_socket(e, role)
  ELSE IF rdo.is_busy = None
  THEN [e EXCEPT !.inbox[role] = <<>>]
  ELSE LET buf == extend_buf(rdo.recv_buf, data)
           parts == SplitNl(buf)
           r == handle_lines([rdo EXCEPT !.recv_buf = buf],
                             SubSeq(parts, 1, Len(parts) - 1),
                             parts[Len(parts)])
       IN [e EXCEPT !.inbox[role] = <<>>,
                    !.radio[role] = r.rdo,
                    !.raised = r.raised,
                    !.log = IF role = "rig" /\ r.changed
                            THEN rig_change(e.log, e.clock)
                            ELSE e.log]

\* ------------------------------------------------------------------ sending
\* The peer's queue of unanswered commands; beyond MaxWire it forgets the
\* oldest one (a command that never gets a reply).
Deliver(q, cmd) ==
  IF Len(q) >= MaxWire THEN Append(Tail(q), cmd) ELSE Append(q, cmd)

\* _send_command(role, now) without the test of devices.enabled(role).
send_command_to_disabled(e, role, t, k) ==
  LET rdo == e.radio[role] IN
  IF ~rdo.sock \/ rdo.command = None
  THEN e
  ELSE IF k = "block"
  THEN e
  ELSE IF k = "send_err"
  THEN cleanup_socket(e, role)
  ELSE [e EXCEPT !.wire[role] = Deliver(e.wire[role], Val(rdo.command)),
                 !.radio[role].is_busy = Some(t),
                 !.radio[role].send_timestamp = t,
                 !.radio[role].command = None]

\* _send_command(role, now); k is what sendall() did.
send_command(e, role, t, k) ==
  LET rdo == e.radio[role] IN
  IF ~rdo.sock \/ rdo.command = None \/ ~enabled(e, role)
  THEN e
  ELSE IF k = "block"
  THEN e
  ELSE IF k = "send_err"
  THEN cleanup_socket(e, role)
  ELSE [e EXCEPT !.wire[role] = Deliver(e.wire[role], Val(rdo.command)),
                 !.radio[role].is_busy = Some(t),
                 !.radio[role].send_timestamp = t,
                 !.radio[role].command = None]

\* "Ensure that we have a freq" (sync.py 157-161).
ensure_freq(e, role) ==
  IF e.radio[role].freq_cur = None
  THEN IF ifreq # None /\ role = "gqrx"
       THEN [e EXCEPT !.radio[role].command = Some(CmdQueryLO)]
       ELSE [e EXCEPT !.radio[role].command = Some(CmdQueryF)]
  ELSE e

\* _freq_query(role, now) without "No freq query to gqrx in ifreq mode".
freq_query_in_ifreq_too(e, role, t) ==
  LET rdo == e.radio[role] IN
  IF \/ (t - rdo.send_timestamp) * 10 < freq_query_interval_tenths
     \/ ~rdo.sock
     \/ rdo.is_busy # None
  THEN e
  ELSE IF rdo.command = None
  THEN [e EXCEPT !.radio[role].command = Some(CmdQueryF)]
  ELSE e

\* _freq_query(role, now)
freq_query(e, role, t) ==
  LET rdo == e.radio[role] IN
  IF \/ (t - rdo.send_timestamp) * 10 < freq_query_interval_tenths
     \/ ~rdo.sock
     \/ rdo.is_busy # None
     \/ (ifreq # None /\ role = "gqrx")
  THEN e
  ELSE IF rdo.command = None
  THEN [e EXCEPT !.radio[role].command = Some(CmdQueryF)]
  ELSE e

\* _freq_set(role)
freq_set(e, role) ==
  LET rdo == e.radio[role] IN
  IF \/ ~rdo.sock
     \/ ~enabled(e, role)
     \/ rdo.is_busy # None
     \/ rdo.freq_cur = None
     \/ (rdo.freq_delta = 0 /\ rdo.freq_sent = None)
  THEN e
  ELSE LET new_freq == Val(rdo.freq_cur) + rdo.freq_delta IN
       [e EXCEPT !.radio[role].freq_delta_sent = rdo.freq_delta,
                 !.radio[role].freq_sent = Some(new_freq),
                 !.radio[role].command = Some(build_cat_cmd(new_freq, FALSE))]

\* _freq_check_timeout(role, now)
freq_check_timeout(e, role, t) ==
  LET rdo == e.radio[role] IN
  IF rdo.is_busy # None /\ t - Val(rdo.is_busy) > timeout(role)
  THEN [e EXCEPT !.radio[role].is_busy = None,
                 !.radio[role].freq_sent = None,
                 !.radio[role].freq_delta_sent = 0,
                 !.radio[role].freq_delta = 0]
  ELSE e

\* ---------------------------------------------------------- synchronisation
\* _update_sync_state() without its first branch: sync is never disabled.
update_sync_state_restore_only(e) ==
  IF (\A r \in RoleSet : e.radio[r].sock) /\ wanted_sync /\ ~e.sync_on
  THEN [e EXCEPT !.sync_on = TRUE]
  ELSE e

\* _update_sync_state() without its second branch: sync is never restored.
update_sync_state_disable_only(e) ==
  IF \E r \in RoleSet : ~e.radio[r].sock
  THEN [e EXCEPT !.sync_on = FALSE]
  ELSE e

\* _update_sync_state() that restores sync whenever both sockets are
\* present, whatever the user asked for.
update_sync_state_ignoring_wish(e) ==
  IF \E r \in RoleSet : ~e.radio[r].sock
  THEN [e EXCEPT !.sync_on = FALSE]
  ELSE IF ~e.sync_on
  THEN [e EXCEPT !.sync_on = TRUE]
  ELSE e

\* _update_sync_state()
update_sync_state(e) ==
  IF \E r \in RoleSet : ~e.radio[r].sock
  THEN [e EXCEPT !.sync_on = FALSE]
  ELSE IF wanted_sync /\ ~e.sync_on
  THEN [e EXCEPT !.sync_on = TRUE]
  ELSE e

\* The Rig-led branch of Direct mode (sync.py 328-335).
direct_rig_leads(e, t) ==
  LET rig == e.radio["rig"] IN
  IF ~(e.sync_lead = Some("gqrx") /\ t - e.sync_time < sync_debounce_time)
  THEN [e EXCEPT !.sync_lead = Some("rig"),
                 !.sync_time = t,
                 !.radio["rig"].freq_prev = rig.freq_cur,
                 !.radio["gqrx"].freq_sent = rig.freq_cur,
                 !.radio["gqrx"].command =
                     Some(build_cat_cmd(Val(rig.freq_cur), FALSE))]
  ELSE e

\* The Gqrx-led branch without the debounce test.
direct_gqrx_leads_no_debounce(e, t) ==
  LET gqrx == e.radio["gqrx"] IN
  [e EXCEPT !.sync_lead = Some("gqrx"),
            !.sync_time = t,
            !.radio["gqrx"].freq_prev = gqrx.freq_cur,
            !.radio["rig"].freq_sent = gqrx.freq_cur,
            !.radio["rig"].command =
                Some(build_cat_cmd(Val(gqrx.freq_cur), FALSE))]

\* The Gqrx-led branch of Direct mode (sync.py 337-344).
direct_gqrx_leads(e, t) ==
  LET gqrx == e.radio["gqrx"] IN
  IF ~(e.sync_lead = Some("rig") /\ t - e.sync_time < sync_debounce_time)
  THEN [e EXCEPT !.sync_lead = Some("gqrx"),
                 !.sync_time = t,
                 !.radio["gqrx"].freq_prev = gqrx.freq_cur,
                 !.radio["rig"].freq_sent = gqrx.freq_cur,
                 !.radio["rig"].command =
                     Some(build_cat_cmd(Val(gqrx.freq_cur), FALSE))]
  ELSE e

\* lo_freq = rig['freq_cur'] - abs(int(self.ifreq * 1e6))
lo_freq(rig_freq) == rig_freq - Abs(Val(ifreq))

\* The IFreq branch (sync.py 347-355).
ifreq_rig_leads(e) ==
  LET rig == e.radio["rig"]
      lo == lo_freq(Val(rig.freq_cur))
  IN IF Some(lo) # e.radio["gqrx"].freq_cur
     THEN [e EXCEPT !.radio["rig"].freq_prev = rig.freq_cur,
                    !.radio["gqrx"].freq_sent = Some(lo),
                    !.radio["gqrx"].command = Some(build_cat_cmd(lo, TRUE))]
     ELSE e

\* _apply_sync_actions(now) with an SDR-led branch in IFreq mode as well.
apply_sync_actions_sdr_leads_in_ifreq(e, t) ==
  LET rig == e.radio["rig"]
      gqrx == e.radio["gqrx"]
      rig_changed == rig.freq_cur # rig.freq_prev
      gqrx_changed == gqrx.freq_cur # gqrx.freq_prev
  IN
  IF \/ ~e.sync_on
     \/ ~rig.sock
     \/ ~enabled(e, "rig")
     \/ ~gqrx.sock
     \/ ~enabled(e, "gqrx")
     \/ rig.freq_cur = None
     \/ (gqrx.freq_cur = None /\ ifreq = None)
  THEN e
  ELSE IF ifreq = None
  THEN IF rig_changed THEN direct_rig_leads(e, t)
       ELSE IF gqrx_changed THEN direct_gqrx_leads(e, t)
       ELSE e
  ELSE IF rig_changed THEN ifreq_rig_leads(e)
  ELSE IF gqrx_changed /\ gqrx.freq_cur # None THEN direct_gqrx_leads(e, t)
  ELSE e

\* _apply_sync_actions(now)
apply_sync_actions(e, t) ==
  LET rig == e.radio["rig"]
      gqrx == e.radio["gqrx"]
      rig_changed == rig.freq_cur # rig.freq_prev
      gqrx_changed == gqrx.freq_cur # gqrx.freq_prev
  IN
  IF \/ ~e.sync_on
     \/ ~rig.sock
     \/ ~enabled(e, "rig")
     \/ ~gqrx.sock
     \/ ~enabled(e, "gqrx")
     \/ rig.freq_cur = None
     \/ (gqrx.freq_cur = None /\ ifreq = None)
  THEN e
  ELSE IF ifreq = None
  THEN IF rig_changed THEN direct_rig_leads(e, t)
       ELSE IF gqrx_changed THEN direct_gqrx_leads(e, t)
       ELSE e
  ELSE IF rig_changed THEN ifreq_rig_leads(e)
  ELSE e

\* --------------------------------------------------------------------- tick
\* self._poller.poll(0) for one role: readable when bytes wait (or the peer
\* closed or reset the connection), writable unless the socket is not ready.
poll_events(e, role, k) ==
  IF ~e.radio[role].sock
  THEN {}
  ELSE (IF k = "hup" THEN {"POLLHUP"} ELSE {})
       \cup (IF e.inbox[role] # <<>> \/ k \in {"eof", "recv_err"}
             THEN {"POLLIN"} ELSE {})
       \cup (IF k \notin {"idle", "hup"} THEN {"POLLOUT"} ELSE {})

\* The per-role steps of tick() with reconnecting ahead of the set.
role_steps_reconnect_early ==
  <<"poll_error", "read", "write", "ensure_freq", "freq_query",
    "reconnect_socket", "freq_set", "freq_check_timeout">>

\* The per-role steps of tick() in the order of the loop body (sync.py
\* 149-166).
role_steps ==
  <<"poll_error", "read", "write", "ensure_freq", "freq_query", "freq_set",
    "reconnect_socket", "freq_check_timeout">>

\* Whether the step does its call in this tick: reading and writing depend
\* on the poll events (sync.py 152, 154).
step_runs(name, evs) ==
  /\ name = "read" => "POLLIN" \in evs
  /\ name = "write" => "POLLOUT" \in evs

\* One step of the loop body.
run_step(name, e, role, t, k, evs) ==
  CASE name = "poll_error" ->
         IF "POLLHUP" \in evs THEN cleanup_socket(e, role) ELSE e
    [] name = "read" ->
         IF "POLLIN" \in evs THEN process_incoming(e, role, k) ELSE e
    [] name = "write" ->
         IF "POLLOUT" \in evs THEN send_command(e, role, t, k) ELSE e
    [] name = "ensure_freq" -> ensure_freq(e, role)
    [] name = "freq_query" -> freq_query(e, role, t)
    [] name = "freq_set" -> freq_set(e, role)
    [] name = "reconnect_socket" -> reconnect_socket(e, t, role)
    [] name = "freq_check_timeout" -> freq_check_timeout(e, role, t)

\* `continue` after a poll error and an exception end the loop body.
ends_body(name, after, evs) ==
  after.raised \/ (name = "poll_error" /\ "POLLHUP" \in evs)

\* The names of the steps that ran, in the order in which they ran.
RECURSIVE steps_run(_, _, _, _, _, _)
steps_run(steps, e, role, t, k, evs) ==
  IF steps = <<>>
  THEN <<>>
  ELSE LET after == run_step(Head(steps), e, role, t, k, evs)
           this == IF step_runs(Head(steps), evs) THEN <<Head(steps)>> ELSE <<>>
       IN IF ends_body(Head(steps), after, evs)
          THEN this
          ELSE this \o steps_run(Tail(steps), after, role, t, k, evs)

\* The loop body from the given step on: each step works on what the step
\* before it left.
RECURSIVE run_steps(_, _, _, _, _, _)
run_steps(steps, e, role, t, k, evs) ==
  IF steps = <<>>
  THEN e
  ELSE CHOOSE result \in
         {IF ends_body(Head(steps), after, evs)
          THEN after
          ELSE run_steps(Tail(steps), after, role, t, k, evs) :
            after \in {run_step(Head(steps), e, role, t, k, evs)}} : TRUE

\* The per-role loop body of tick() (sync.py 146-166).
tick_role(e, role, t, k) ==
  run_steps(role_steps, e, role, t, k, poll_events(e, role, k))

\* The steps the loop body runs for this role in this tick.
tick_role_steps(e, role, t, k) ==
  LET evs == poll_events(e, role, k) IN
  steps_run(role_steps, e, role, t, k, evs)

\* _log_rig_change(wait, now): one line with the Rig's freq_cur once the
\* latest observed change is more than wait old (sync.py 557-564).
log_rig_change(e, wait, t) ==
  IF e.log.file /\ e.log.last_rig_change # None /\ ~e.log.rig_reported
  THEN IF t - Val(e.log.last_rig_change) > wait
       THEN [e EXCEPT !.log.lines = Append(@, e.radio["rig"].freq_cur),
                      !.log.rig_reported = TRUE]
       ELSE e
  ELSE e

\* tick(now) while not shut down (sync.py 137-173); an exception ends it
\* where it is raised.
tick(e, t, k) ==
  LET e0 == [e EXCEPT !.clock = t]
      e1 == tick_role(e0, "rig", t, k["rig"])
      e2 == IF e1.raised THEN e1 ELSE tick_role(e1, "gqrx", t, k["gqrx"])
  IN IF e2.raised
     THEN e2
     ELSE update_sync_state(
            apply_sync_actions(
              log_rig_change(e2, wait_before_log_rigfreq, t), t))

\* nudge(delta_hz) without the test against step x nudge_buffer.
nudge_unclamped(e, delta_hz) ==
  LET hit == {r \in RoleSet : e.radio[r].sock /\ enabled(e, r)}
      role == IF "rig" \in hit THEN "rig" ELSE "gqrx"
  IN IF hit = {}
     THEN e
     ELSE [e EXCEPT !.radio[role].freq_delta = e.radio[role].freq_delta + delta_hz]

\* nudge(delta_hz)
nudge(e, delta_hz) ==
  LET hit == {r \in RoleSet : e.radio[r].sock /\ enabled(e, r)}
      role == IF "rig" \in hit THEN "rig" ELSE "gqrx"
      sum == e.radio[role].freq_delta + delta_hz
  IN IF hit = {}
     THEN e
     ELSE IF Abs(sum) > get_step * nudge_buffer
     THEN e
     ELSE [e EXCEPT !.radio[role].freq_delta = sum]

\* set_sync_mode(state): the new sync_on
set_sync_mode(e, state) ==
  IF ~e.radio["rig"].sock \/ ~e.radio["gqrx"].sock THEN FALSE ELSE state

\* shutdown(role) that resets the peer without closing its socket.
shutdown_role_socket_left(e, role) ==
  [e EXCEPT !.radio[role] = [InitPeer EXCEPT !.sock = e.radio[role].sock]]

\* shutdown(role) that treats every role like the one named.
shutdown_role_every_peer(e, role) ==
  LET a == cleanup_socket(cleanup_socket(e, "rig"), "gqrx")
  IN [a EXCEPT !.radio = [r \in RoleSet |-> InitPeer]]

\* shutdown(role) for one role: close the socket, reset the peer.
shutdown_role(e, role) ==
  LET a == IF e.radio[role].sock THEN cleanup_socket(e, role) ELSE e
  IN [a EXCEPT !.radio[role] = InitPeer]

\* shutdown(): every role.
shutdown_all(e) == shutdown_role(shutdown_role(e, "rig"), "gqrx")

\* StepController.next_step()
\* next_step() that wraps to the default step instead of the first.
next_step_wraps_to_default(i) == IF i + 1 < Len(STEPS) THEN i + 1 ELSE 1

next_step(i) == (i + 1) % Len(STEPS)

\* ------------------------------------------------------------------ actions
\* The log after a call, with the note whether the Rig frequency is still
\* the one of the latest line.
Logged(e) ==
  [e.log EXCEPT !.steady =
     IF Len(e.log.lines) > Len(freq_log.lines) \/ e.log.lines = <<>>
     THEN TRUE
     ELSE @ /\ e.radio["rig"].freq_cur = radio["rig"].freq_cur]

Commit(e) ==
  /\ freq_log' = Logged(e)
  /\ radio' = e.radio
  /\ sync_on' = e.sync_on
  /\ sync_time' = e.sync_time
  /\ sync_lead' = e.sync_lead
  /\ devices' = e.devices
  /\ raised' = e.raised
  /\ wire' = e.wire
  /\ inbox' = e.inbox

\* Clock values the next call may see (time.monotonic() never goes back).
Times == {now + d : d \in env.dts} \cap StartNow..env.last

\* What a socket may do in a tick: "ok" (writable), "idle" (not writable),
\* "block" (sendall raises BlockingIOError), "send_err" (sendall raises
\* OSError), "hup" (POLLHUP/POLLERR), "eof" (recv returns b""), "recv_err"
\* (recv raises OSError).  Only outcomes that the tick can meet are offered.
Applicable(r, kind) ==
  \/ kind = "ok"
  \/ /\ radio[r].sock
     /\ kind \in {"idle", "block", "send_err"}
          => (radio[r].command # None /\ r \in devices)
     /\ kind = "eof" => inbox[r] = <<>>

Faults(k) == Cardinality({r \in RoleSet : k[r] # "ok"})

IoChoices ==
  {k \in [RoleSet -> env.io \cup {"ok"}] :
     /\ \A r \in RoleSet : Applicable(r, k[r])
     /\ spent + Faults(k) <= env.budget}

\* The main loop calls sync.tick(now) (main.py 95).
Tick ==
  /\ ~shut /\ ~raised
  /\ \E t \in Times : \E k \in IoChoices :
       /\ Commit(tick(Eng, t, k))
       /\ now' = t
       /\ spent' = spent + Faults(k)
  /\ UNCHANGED <<wanted_sync, shut, ifreq, index, last_call, env>>
  /\ UNCHANGED <<sched, bands>>

\* tick() after a full shutdown returns at once (sync.py 134-135).
TickRefused ==
  /\ shut
  /\ \E t \in Times : now' = t
  /\ UNCHANGED <<radio, sync_on, wanted_sync, shut, sync_time, sync_lead,
                 ifreq, devices, index, raised, wire, inbox, spent, last_call,
                 env, freq_log>>
  /\ UNCHANGED <<sched, bands>>

UserInput ==
  /\ ~shut /\ ~raised
  /\ spent < env.budget
  /\ spent' = spent + 1
  /\ env' = env

\* A key, wheel or knob event calls sync.nudge(+/- step.get_step()).
Nudge ==
  /\ UserInput
  /\ \E delta_hz \in {get_step, -get_step} : Commit(nudge(Eng, delta_hz))
  /\ UNCHANGED <<wanted_sync, shut, ifreq, index, now, last_call>>
  /\ UNCHANGED <<sched, bands>>

\* Space bar, middle button or knob click: step.next_step().
NextStep ==
  /\ UserInput
  /\ index' = next_step(index)
  /\ UNCHANGED <<radio, sync_on, wanted_sync, shut, sync_time, sync_lead,
                 ifreq, devices, now, raised, wire, inbox, last_call,
                 freq_log>>
  /\ UNCHANGED <<sched, bands>>

\* set_sync_mode(state)
SetSyncMode ==
  /\ UserInput
  /\ \E state \in BOOLEAN :
       /\ wanted_sync' = state
       /\ sync_on' = set_sync_mode(Eng, state)
  /\ UNCHANGED <<radio, shut, sync_time, sync_lead, ifreq, devices, index,
                 now, raised, wire, inbox, last_call, freq_log>>
  /\ UNCHANGED <<sched, bands>>

\* DeviceRegister._on_add and _on_remove: the subscribers in the order
\* DeviceHandler._register_hooks registers them.
on_add ==
  <<"_on_knob_added", "_on_mouse_added", "_on_rig_added", "_on_gqrx_added">>
on_remove ==
  <<"_on_knob_removed", "_on_mouse_removed", "_on_rig_removed",
    "_on_gqrx_removed">>

\* add(dev) that runs the subscribers for an enabled tag as well.
add_not_idempotent(e, dev, t) ==
  LET a == [e EXCEPT !.devices = e.devices \cup {dev}] IN
  IF dev = "gqrx" THEN reconnect_socket(a, t, "gqrx") ELSE a

\* DeviceRegister.add(dev) with DeviceHandler's subscribers: adding gqrx
\* calls sync.reconnect_socket(time.monotonic(), 'gqrx').
add(e, dev, t) ==
  IF dev \in e.devices
  THEN e
  ELSE LET a == [e EXCEPT !.devices = e.devices \cup {dev}] IN
       IF dev = "gqrx" THEN reconnect_socket(a, t, "gqrx") ELSE a

\* DeviceRegister.remove(dev) with DeviceHandler's subscribers: removing
\* gqrx calls sync.shutdown('gqrx'), removing rig calls sync.shutdown('rig')
\* when a rig checker exists.
remove(e, dev, rigchk) ==
  IF dev \notin e.devices
  THEN e
  ELSE LET a == [e EXCEPT !.devices = e.devices \ {dev}] IN
       IF dev = "gqrx" \/ (dev = "rig" /\ rigchk)
       THEN shutdown_role(a, dev)
       ELSE a

\* toggle() with its guard removed.
toggle_never_refused(devs, dev) == FALSE

\* "Prevent disabling both radios": toggle(dev) returns False.
toggle_refused(devs, dev) ==
  dev \in RoleSet /\ dev \in devs /\ Other(dev) \notin devs

\* DeviceRegister.toggle(dev) once the guard has passed.
toggle(e, dev, rigchk, t) ==
  IF dev \in e.devices THEN remove(e, dev, rigchk) ELSE add(e, dev, t)

\* What a DeviceRegister call leaves behind: its return value (None for add
\* and remove) and the subscribers it called, in the order of the calls.
Call(op, dev, ret, fired) ==
  Some([op |-> op, dev |-> dev, ret |-> ret, fired |-> fired])

\* The 'g' and 'r' keys: devices.toggle('gqrx'), devices.toggle('rig'); a
\* refused toggle changes nothing.
ToggleRadio ==
  /\ UserInput
  /\ \E dev \in RoleSet : \E rigchk \in BOOLEAN : \E t \in Times :
       /\ dev \in devices => Other(dev) \in devices
       /\ Commit(toggle(Eng, dev, rigchk, t))
       /\ now' = t
       /\ last_call' = Call("toggle", dev, Some(TRUE),
                            IF dev \in devices THEN on_remove ELSE on_add)
  /\ UNCHANGED <<wanted_sync, shut, ifreq, index>>
  /\ UNCHANGED <<sched, bands>>

\* shutdown(): main's cleanup and atexit (main.py 67, 107).
Shutdown ==
  /\ ~shut
  /\ shut' = TRUE
  /\ LET e == shutdown_all(Eng) IN
       /\ radio' = e.radio
       /\ sync_on' = e.sync_on
       /\ wire' = e.wire
       /\ inbox' = e.inbox
       /\ freq_log' = Logged(e)
  /\ UNCHANGED <<wanted_sync, sync_time, sync_lead, ifreq, devices, index,
                 now, raised, spent, last_call, env>>
  /\ UNCHANGED <<sched, bands>>

\* What a peer may answer to a command: the reply the protocol asks for, or
\* an error report, a RPRT without code, other text, or an unfinished line.
Replies(cmd, kind) ==
  CASE kind = "proper" ->
         IF IsSetCmd(cmd) THEN {LineRprt(0)} ELSE {LineInt(f) : f \in Freqs}
    [] kind = "error" -> {LineRprt(5)}
    [] kind = "bare" -> {LineBareRprt}
    [] kind = "junk" -> {LineJunk}
    [] kind = "fragment" -> {Fragment}

\* A peer answers the oldest command it holds.
PeerReply ==
  /\ \E r \in RoleSet :
       /\ radio[r].sock
       /\ wire[r] # <<>>
       /\ NlCount(inbox[r]) < MaxInboxLines
       /\ \E kind \in env.replies : \E line \in Replies(Head(wire[r]), kind) :
            /\ kind # "proper" => spent < env.budget
            /\ spent' = spent + (IF kind = "proper" THEN 0 ELSE 1)
            /\ inbox' = [inbox EXCEPT ![r] = inbox[r] \o line]
            /\ wire' = [wire EXCEPT ![r] = Tail(wire[r])]
  /\ UNCHANGED <<radio, sync_on, wanted_sync, shut, sync_time, sync_lead,
                 ifreq, devices, index, now, raised, last_call, env,
                 freq_log>>
  /\ UNCHANGED <<sched, bands>>

Next ==
  \/ Tick
  \/ TickRefused
  \/ Nudge
  \/ NextStep
  \/ SetSyncMode
  \/ ToggleRadio
  \/ Shutdown
  \/ PeerReply

Spec == Init /\ [][Next]_vars

\* Sockets and peers that behave, one more user input.
InitUser ==
  /\ Start
  /\ env = [io |-> {"ok"}, replies |-> {"proper"}, dts |-> CoarseDts,
            budget |-> MaxDisturb + 1, last |-> MaxNow]

SpecUser == InitUser /\ [][Next]_vars

\* The fine clock, one disturbance less.
InitFine ==
  /\ Start
  /\ env = [io |-> IoKinds, replies |-> ReplyKinds, dts |-> FineDts,
            budget |-> MaxDisturb - 1, last |-> MaxNow]

SpecFine == InitFine /\ [][Next]_vars

\* A configured frequency log, sockets and peers that behave, a clock that
\* moves in steps longer than wait_before_log_rigfreq.
InitLog ==
  /\ StartWith(TRUE)
  /\ env = [io |-> {"ok"}, replies |-> {"proper"}, dts |-> {0, LogStep},
            budget |-> 1, last |-> MaxLogNow]

SpecLog == InitLog /\ [][Next]_vars

\* ------------------------------------------------------ the device registry
\* DeviceRegister.add(dev)
RegistryAdd ==
  /\ \E dev \in Tags : \E t \in Times :
       /\ Commit(add(Eng, dev, t))
       /\ now' = t
       /\ last_call' = Call("add", dev, None,
                            IF dev \in devices THEN <<>> ELSE on_add)
  /\ UNCHANGED <<wanted_sync, shut, ifreq, index, spent, env>>
  /\ UNCHANGED <<sched, bands>>

\* DeviceRegister.remove(dev)
RegistryRemove ==
  /\ \E dev \in Tags : \E rigchk \in BOOLEAN : \E t \in Times :
       /\ Commit(remove(Eng, dev, rigchk))
       /\ now' = t
       /\ last_call' = Call("remove", dev, None,
                            IF dev \in devices THEN on_remove ELSE <<>>)
  /\ UNCHANGED <<wanted_sync, shut, ifreq, index, spent, env>>
  /\ UNCHANGED <<sched, bands>>

\* DeviceRegister.toggle(dev)
RegistryToggle ==
  /\ \E dev \in Tags : \E rigchk \in BOOLEAN : \E t \in Times :
       /\ now' = t
       /\ IF toggle_refused(devices, dev)
          THEN /\ Commit(Eng)
               /\ last_call' = Call("toggle", dev, Some(FALSE), <<>>)
          ELSE /\ Commit(toggle(Eng, dev, rigchk, t))
               /\ last_call' = Call("toggle", dev, Some(TRUE),
                                    IF dev \in devices
                                    THEN on_remove ELSE on_add)
  /\ UNCHANGED <<wanted_sync, shut, ifreq, index, spent, env>>
  /\ UNCHANGED <<sched, bands>>

NextRegistry ==
  \/ RegistryAdd
  \/ RegistryRemove
  \/ RegistryToggle

\* The registry as the command line may fill it: any tags, at least one of
\* them a radio.
InitRegistry ==
  /\ radio = [r \in RoleSet |-> InitPeer]
  /\ sync_on = TRUE
  /\ wanted_sync = TRUE
  /\ shut = FALSE
  /\ sync_time = 0
  /\ sync_lead = None
  /\ ifreq \in {None} \cup {Some(f) : f \in IFreqChoices}
  /\ devices \in {d \in SUBSET Tags : d \cap RoleSet # {}}
  /\ index = 1
  /\ now = StartNow
  /\ raised = FALSE
  /\ wire = Empty
  /\ inbox = Empty
  /\ spent = 0
  /\ last_call = None
  /\ sched = NewScheduler(jitter, backoff_cap)
  /\ bands = NewBands
  /\ freq_log = NewLog(FALSE, "rig" \in devices)
  /\ env = [io |-> {"ok"}, replies |-> {"proper"}, dts |-> CoarseDts,
            budget |-> 0, last |-> MaxNow]

SpecRegistry == InitRegistry /\ [][NextRegistry]_vars

\* ------------------------------------------------------------ the scheduler
\* The outcomes of random.uniform(1 - jitter, 1 + jitter) that are told
\* apart, in percent: both ends and the middle.
JitterFactors(s) ==
  IF s.jitter = 0 THEN {100} ELSE {100 - s.jitter, 100, 100 + s.jitter}

Min(a, b) == IF a < b THEN a ELSE b

RECURSIVE Pow2(_)
Pow2(n) == IF n = 0 THEN 1 ELSE 2 * Pow2(n - 1)

\* The failure interval without the cap.
backoff_interval_uncapped(s, failures) == reconnect_interval * Pow2(failures)

\* min(self.reconnect_interval * (2 ** rec.failures), self.backoff_cap)
backoff_interval(s, failures) ==
  Min(reconnect_interval * Pow2(failures), s.backoff_cap)

\* register() that makes a fresh record for a probe it already holds.
register_recreating(s, fn, tag, backoff, run_immediately, t) ==
  LET tg == IF tag = None THEN default_tag(fn) ELSE Val(tag)
      first == IF run_immediately THEN t ELSE t + reconnect_interval
  IN IF s.shutdown
     THEN s
     ELSE [s EXCEPT !.tasks[fn] =
             Some(TaskRecord(tg, first, reconnect_interval, backoff,
                             s.generation))]

\* register(fn, tag, backoff, run_immediately); t is time.monotonic().
register(s, fn, tag, backoff, run_immediately, t) ==
  LET tg == IF tag = None THEN default_tag(fn) ELSE Val(tag)
      first == IF run_immediately THEN t ELSE t + reconnect_interval
      rec == s.tasks[fn]
  IN IF s.shutdown
     THEN s
     ELSE IF rec # None
     THEN [s EXCEPT !.tasks[fn] =
             Some([Val(rec) EXCEPT !.tag = tg,
                                   !.backoff = backoff,
                                   !.next_run = IF run_immediately THEN t ELSE @])]
     ELSE [s EXCEPT !.tasks[fn] =
             Some(TaskRecord(tg, first, reconnect_interval, backoff,
                             s.generation))]

\* The invocations of the probes in `gone`.
InvocationsOf(s, gone) == {id \in 1..Len(s.futures) : s.futures[id].fn \in gone}

\* unregister_tag(tag) that removes the tasks with exactly that tag.
unregister_tag_exact(s, tag) ==
  LET gone == {fn \in Fns : /\ s.tasks[fn] # None
                            /\ Val(s.tasks[fn]).tag = tag}
  IN [s EXCEPT !.generation = @ + 1,
               !.tasks = [fn \in Fns |-> IF fn \in gone THEN None ELSE @[fn]],
               !.orphans = @ \cup InvocationsOf(s, gone)]

\* unregister_tag(tag)
unregister_tag(s, tag) ==
  LET gone == {fn \in Fns : /\ s.tasks[fn] # None
                            /\ \/ Val(s.tasks[fn]).tag = tag
                               \/ StartsWith(Val(s.tasks[fn]).tag, tag)}
  IN [s EXCEPT !.generation = @ + 1,
               !.tasks = [fn \in Fns |-> IF fn \in gone THEN None ELSE @[fn]],
               !.orphans = @ \cup InvocationsOf(s, gone)]

\* rec.future is None or rec.future.done()
future_free(s, rec) ==
  rec.future = None \/ s.futures[Val(rec.future)].state = "done"

\* The body of tick()'s loop for one task: submit the probe when it is due.
dispatch(s, fn, t) ==
  LET rec == s.tasks[fn] IN
  IF rec # None /\ t >= Val(rec).next_run /\ future_free(s, Val(rec))
  THEN [s EXCEPT !.tasks[fn] =
          Some([Val(rec) EXCEPT !.next_run = t + Val(rec).interval,
                                !.future = Some(Len(s.futures) + 1)]),
                 !.futures =
          Append(@, [fn |-> fn, generation |-> Val(rec).generation,
                     start |-> t, state |-> "running"])]
  ELSE s

RECURSIVE dispatch_all(_, _, _)
dispatch_all(s, fns, t) ==
  IF fns = <<>> THEN s ELSE dispatch_all(dispatch(s, Head(fns), t), Tail(fns), t)

\* Draining one result without comparing generations.
drain_one_unchecked(s, item, t, u) ==
  LET rec == s.tasks[item.fn] IN
  IF rec = None
  THEN s
  ELSE LET r == Val(rec)
           failures == IF ~r.backoff THEN r.failures
                       ELSE IF item.success THEN 0 ELSE r.failures + 1
           interval == IF ~r.backoff THEN r.interval
                       ELSE ((IF item.success THEN reconnect_interval
                              ELSE backoff_interval(s, failures)) * u) \div 100
           target == t + interval
       IN [s EXCEPT !.tasks[item.fn] =
             Some([r EXCEPT !.last_duration = item.duration,
                            !.failures = failures,
                            !.interval = interval,
                            !.next_run = IF @ < target THEN target ELSE @,
                            !.future = None])]

\* One result taken from the queue (reconnect_scheduler.py 130-149); u is
\* the jitter factor drawn for it.
drain_one(s, item, t, u) ==
  LET rec == s.tasks[item.fn] IN
  IF rec = None
  THEN s
  ELSE IF item.generation # Val(rec).generation
  THEN s
  ELSE LET r == Val(rec)
           failures == IF ~r.backoff THEN r.failures
                       ELSE IF item.success THEN 0 ELSE r.failures + 1
           interval == IF ~r.backoff THEN r.interval
                       ELSE ((IF item.success THEN reconnect_interval
                              ELSE backoff_interval(s, failures)) * u) \div 100
           target == t + interval
       IN [s EXCEPT !.tasks[item.fn] =
             Some([r EXCEPT !.last_duration = item.duration,
                            !.failures = failures,
                            !.interval = interval,
                            !.next_run = IF @ < target THEN target ELSE @,
                            !.future = None])]

\* _drain_results(); u gives the jitter factor per probe.
RECURSIVE drain_results(_, _, _)
drain_results(s, t, u) ==
  IF s.result_queue = <<>>
  THEN s
  ELSE LET item == Head(s.result_queue) IN
       drain_results(drain_one([s EXCEPT !.result_queue = Tail(@)],
                               item, t, u[item.fn]), t, u)

\* ReconnectScheduler.tick()
scheduler_tick(s, t, u) ==
  IF s.shutdown THEN s ELSE drain_results(dispatch_all(s, FnOrder, t), t, u)

\* _worker_wrapper up to the put: the probe has run and its result is queued;
\* the worker's t0 and generation are not read again.
worker_put(s, id, success, t) ==
  LET f == s.futures[id] IN
  [s EXCEPT !.result_queue =
              Append(@, [fn |-> f.fn, success |-> success,
                         duration |-> t - f.start, generation |-> f.generation,
                         id |-> id]),
            !.futures[id] = [fn |-> f.fn, generation |-> 0, start |-> 0,
                             state |-> "queued"]]

\* _worker_wrapper returns: the future is done.
worker_return(s, id) == [s EXCEPT !.futures[id].state = "done"]

\* ReconnectScheduler.shutdown()
scheduler_shutdown(s) == [s EXCEPT !.shutdown = TRUE]

\* The scheduler on its own: the device layer's calls, the main loop's
\* tick and the executor's workers, in any order.
SchedDts == {0, reconnect_interval}

\* The runs explored: many API calls in a short time, the program's jitter
\* with one registration, and one registration followed for a long time
\* under the default and under a low cap.
SchedRuns ==
  {[NewScheduler(0, backoff_cap)
      EXCEPT !.budget = SchedBudget(MaxSchedCalls, FewFutures, ShortSchedNow)],
   [NewScheduler(jitter, backoff_cap)
      EXCEPT !.budget = SchedBudget(1, FewFutures, ShortSchedNow)]}
  \cup {[NewScheduler(0, c) EXCEPT !.budget = SchedBudget(1, MaxFutures, MaxSchedNow)] :
          c \in {LowCap, backoff_cap}}

SchedTimes == {sched.now + d : d \in SchedDts} \cap 0..sched.budget.now

EngineIdle ==
  UNCHANGED <<radio, sync_on, wanted_sync, shut, sync_time, sync_lead, ifreq,
              devices, index, now, raised, wire, inbox, spent, last_call, env,
              freq_log>>

\* The device layer registers a probe (device_handler.py 167-211).
SchedRegisterWith(fn, tag, backoff, run_immediately) ==
  /\ sched.calls < sched.budget.calls
  /\ sched' = [register(sched, fn, tag, backoff, run_immediately, sched.now)
                 EXCEPT !.calls = @ + 1]
  /\ EngineIdle
  /\ UNCHANGED bands

SchedRegister ==
  \E fn \in Fns, tag \in {None, Some(TagRig)},
     backoff \in BOOLEAN, run_immediately \in BOOLEAN :
    SchedRegisterWith(fn, tag, backoff, run_immediately)

\* A *_removed hook unregisters a tag (device_handler.py 214-284).
SchedUnregisterWith(tag) ==
  /\ sched.calls < sched.budget.calls
  /\ sched' = [unregister_tag(sched, tag) EXCEPT !.calls = @ + 1]
  /\ EngineIdle
  /\ UNCHANGED bands

SchedUnregister == \E tag \in SchedTags : SchedUnregisterWith(tag)

\* The main loop calls the scheduler's tick at time t; u is what
\* random.uniform returns for each result drained.
SchedTickAt(t, u) ==
  /\ sched' = [scheduler_tick(sched, t, u) EXCEPT !.now = t]
  /\ Len(sched'.futures) <= sched.budget.futures
  /\ EngineIdle
  /\ UNCHANGED bands

SchedTick ==
  \E t \in SchedTimes, u \in [Fns -> JitterFactors(sched)] :
    /\ \A fn \in Fns : u[fn] # 100 => \E i \in 1..Len(sched.result_queue) :
                                          sched.result_queue[i].fn = fn
    /\ SchedTickAt(t, u)

\* A worker thread finishes the probe and queues its result.
WorkerFinish ==
  /\ \E id \in 1..Len(sched.futures), success \in BOOLEAN :
       /\ sched.futures[id].state = "running"
       /\ sched' = worker_put(sched, id, success, sched.now)
  /\ EngineIdle
  /\ UNCHANGED bands

\* A worker thread returns from _worker_wrapper.
WorkerReturn ==
  /\ \E id \in 1..Len(sched.futures) :
       /\ sched.futures[id].state = "queued"
       /\ sched' = worker_return(sched, id)
  /\ EngineIdle
  /\ UNCHANGED bands

SchedShutdown ==
  /\ ~sched.shutdown
  /\ sched' = scheduler_shutdown(sched)
  /\ EngineIdle
  /\ UNCHANGED bands

NextScheduler ==
  \/ SchedRegister
  \/ SchedUnregister
  \/ SchedTick
  \/ WorkerFinish
  \/ WorkerReturn
  \/ SchedShutdown

InitScheduler ==
  /\ radio = [r \in RoleSet |-> InitPeer]
  /\ sync_on = TRUE
  /\ wanted_sync = TRUE
  /\ shut = FALSE
  /\ sync_time = 0
  /\ sync_lead = None
  /\ ifreq = None
  /\ devices = Tags
  /\ index = 1
  /\ now = StartNow
  /\ raised = FALSE
  /\ wire = Empty
  /\ inbox = Empty
  /\ spent = 0
  /\ last_call = None
  /\ sched \in SchedRuns
  /\ bands = NewBands
  /\ freq_log = NewLog(FALSE, "rig" \in devices)
  /\ env = [io |-> {"ok"}, replies |-> {"proper"}, dts |-> CoarseDts,
            budget |-> 0, last |-> MaxNow]

SpecScheduler == InitScheduler /\ [][NextScheduler]_vars

\* ------------------------------------------------- step cycler and bands
\* set_step(step): the index of step in the list, if it is there.
set_step(i, value) ==
  IF \E k \in 1..Len(STEPS) : STEPS[k] = value
  THEN (CHOOSE k \in 1..Len(STEPS) : STEPS[k] = value) - 1
  ELSE i

\* bisect_right(self._starts, f) - 1, 0-based
index_for(f) ==
  Cardinality({i \in 1..Len(DEFAULT_BANDS) : DEFAULT_BANDS[i].start <= f}) - 1

\* _get_band_index with the band's end left out.
get_band_index_open_end(f) ==
  LET i == index_for(f) IN
  IF 0 <= i /\ i < Len(DEFAULT_BANDS) /\ f < DEFAULT_BANDS[i + 1].end
  THEN Some(i) ELSE None

\* _get_band_index(f): the 0-based index of the band f is in, or None
get_band_index(f) ==
  LET i == index_for(f) IN
  IF 0 <= i /\ i < Len(DEFAULT_BANDS) /\ f <= DEFAULT_BANDS[i + 1].end
  THEN Some(i) ELSE None

\* band_name(f)
band_name(f) ==
  IF get_band_index(f) # None
  THEN DEFAULT_BANDS[Val(get_band_index(f)) + 1].name
  ELSE "OOB"

\* What step() gives back: the goto column, the return value (None for
\* False) and the number of beeps.
StepResult(goto, ret, beeps) == [goto |-> goto, ret |-> ret, beeps |-> beeps]

\* step() that, out of band and going down, takes the band before the one
\* below.
step_down_one_too_far(goto, f, direction) ==
  LET idx_inside == get_band_index(f)
      n == Len(DEFAULT_BANDS)
      i == index_for(f)
  IN IF idx_inside # None
     THEN LET idx == Val(idx_inside) IN
          IF direction > 0
          THEN IF idx = n - 1
               THEN StepResult(goto, None, 1)
               ELSE StepResult([goto EXCEPT ![idx + 1] = f], Some(goto[idx + 2]), 0)
          ELSE IF idx = 0
               THEN StepResult(goto, None, 1)
               ELSE StepResult([goto EXCEPT ![idx + 1] = f], Some(goto[idx]), 0)
     ELSE IF direction > 0
          THEN IF i + 1 >= n
               THEN StepResult(goto, None, 1)
               ELSE StepResult(goto, Some(goto[i + 2]), 0)
          ELSE IF i < 1
               THEN StepResult(goto, None, 1)
               ELSE StepResult(goto, Some(goto[i]), 0)

\* Bands.step(f, direction) on the goto column (1-based here)
step(goto, f, direction) ==
  LET idx_inside == get_band_index(f)
      n == Len(DEFAULT_BANDS)
      i == index_for(f)
  IN IF idx_inside # None
     THEN LET idx == Val(idx_inside) IN
          IF direction > 0
          THEN IF idx = n - 1
               THEN StepResult(goto, None, 1)
               ELSE StepResult([goto EXCEPT ![idx + 1] = f], Some(goto[idx + 2]), 0)
          ELSE IF idx = 0
               THEN StepResult(goto, None, 1)
               ELSE StepResult([goto EXCEPT ![idx + 1] = f], Some(goto[idx]), 0)
     ELSE IF direction > 0
          THEN IF i + 1 >= n
               THEN StepResult(goto, None, 1)
               ELSE StepResult(goto, Some(goto[i + 2]), 0)
          ELSE IF i < 0
               THEN StepResult(goto, None, 1)
               ELSE StepResult(goto, Some(goto[i + 1]), 0)

\* Frequencies handed to the band classifier, in units of 100 Hz: below the
\* table, the start, inside and end of 160m, the gap above it, inside 80m and
\* 10m, the start, inside and end of 6m, above the table.
BandFreqs ==
  {10000, 18100, 19000, 20000, 30000, 36000, 290000, 500000, 510000, 520000,
   530000}

\* Values handed to set_step: the steps and three values not in the list.
StepValues == {0, 10, 50, 100, 1000, 10000, 100000}

UtilIdle ==
  UNCHANGED <<radio, sync_on, wanted_sync, shut, sync_time, sync_lead, ifreq,
              devices, now, raised, wire, inbox, spent, last_call, sched, env,
              freq_log>>

\* StepController.next_step()
StepNext ==
  /\ index' = next_step(index)
  /\ UNCHANGED bands
  /\ UtilIdle

\* StepController.set_step(value)
SetStepTo(value) ==
  /\ index' = set_step(index, value)
  /\ UNCHANGED bands
  /\ UtilIdle

SetStep == \E value \in StepValues : SetStepTo(value)

BandCall(op, f, direction, ret, beeps) ==
  Some([op |-> op, f |-> f, direction |-> direction, ret |-> ret,
        beeps |-> beeps])

\* Bands.band_name(f)
BandName ==
  /\ \E f \in BandFreqs :
       bands' = [bands EXCEPT !.call = BandCall("band_name", f, 0, band_name(f), 0)]
  /\ UNCHANGED index
  /\ UtilIdle

\* Bands.step(f, direction)
BandStepWith(f, direction) ==
  /\ LET r == step(bands.goto, f, direction) IN
       bands' = [goto |-> r.goto,
                 call |-> BandCall("step", f, direction, r.ret, r.beeps)]
  /\ UNCHANGED index
  /\ UtilIdle

BandStep == \E f \in BandFreqs, direction \in {1, -1} : BandStepWith(f, direction)

NextUtil ==
  \/ StepNext
  \/ SetStep
  \/ BandName
  \/ BandStep

InitUtil ==
  /\ radio = [r \in RoleSet |-> InitPeer]
  /\ sync_on = TRUE
  /\ wanted_sync = TRUE
  /\ shut = FALSE
  /\ sync_time = 0
  /\ sync_lead = None
  /\ ifreq = None
  /\ devices = Tags
  /\ index = 1
  /\ now = StartNow
  /\ raised = FALSE
  /\ wire = Empty
  /\ inbox = Empty
  /\ spent = 0
  /\ last_call = None
  /\ sched = NewScheduler(jitter, backoff_cap)
  /\ bands = NewBands
  /\ freq_log = NewLog(FALSE, "rig" \in devices)
  /\ env = [io |-> {"ok"}, replies |-> {"proper"}, dts |-> CoarseDts,
            budget |-> 0, last |-> MaxNow]

SpecUtil == InitUtil /\ [][NextUtil]_vars

\* ------------------------------------------------------------------ claims
\* C1: for each peer, in every reachable state, a command in flight (is_busy
\* set) implies that no command is pending (command is None).
C1_InFlightMeansNothingPending ==
  \A r \in RoleSet : radio[r].is_busy # None => radio[r].command = None

\* C2: in IFreq mode every command the SDR has been sent is the LO query or
\* an LO set, never "F <hz>".
C2_IFreqOnlyLnbLo ==
  ifreq # None =>
    \A i \in 1..Len(wire["gqrx"]) : wire["gqrx"][i].verb = "LNB_LO"

\* C3: for each peer, in every reachable state, |freq_delta| is at most the
\* current step times nudge_buffer.
C3_NudgeSaturation ==
  \A r \in RoleSet : Abs(radio[r].freq_delta) <= get_step * nudge_buffer

\* C4: whenever a tick processes the "RPRT 0" that acknowledges a set command
\* of a peer (the peer is waiting, freq_sent holds the frequency of the set,
\* the socket survives the tick), freq_delta decreases by exactly the
\* freq_delta_sent outstanding and freq_cur becomes the freq_sent.
C4_AckReconcilesDelta ==
  [][\A r \in RoleSet :
       (/\ radio[r].sock /\ radio'[r].sock
        /\ radio'[r].recon_timestamp = radio[r].recon_timestamp
        /\ radio[r].is_busy # None
        /\ radio[r].freq_sent # None
        /\ radio[r].recv_buf = <<>>
        /\ inbox[r] = LineRprt(0)
        /\ inbox'[r] = <<>>
        /\ ~raised')
       => /\ radio'[r].freq_delta = radio[r].freq_delta - radio[r].freq_delta_sent
          /\ radio'[r].freq_cur = radio[r].freq_sent]_vars

BothSocks == \A r \in RoleSet : radio[r].sock

\* C5 as stated: in every reachable state, from construction on, sync_on
\* implies that both peers have a socket.
C5_SyncOnNeedsSockets == sync_on => BothSocks

\* C5, amended: every tick() and every set_sync_mode() call ends with sync_on
\* implying both sockets, and no other call breaks that once it holds; only
\* the state the constructor leaves (sync_on set, no socket yet) is outside.
C5_SyncOnNeedsSocketsAfterTick ==
  [][(sync_on' /\ \E r \in RoleSet : ~radio'[r].sock)
       => ~((sync_on => BothSocks) \/ SetSyncMode \/ Tick)]_vars

\* Ticks have run and both peers have answered: sync is on, with both sockets.
C5_Witness ==
  /\ sync_on /\ BothSocks
  /\ \A r \in RoleSet : radio[r].freq_cur # None

\* C6: a step in which a peer's socket goes away ends with sync_on false; a
\* tick that runs to its end with both sockets present and wanted_sync true
\* ends with sync_on true (set_sync_mode is not called in a tick).
C6_SyncAutoDisableRestore ==
  [][/\ (\E r \in RoleSet : radio[r].sock /\ ~radio'[r].sock) => ~sync_on'
     /\ (wanted_sync /\ ~sync_on' /\ ~raised'
           /\ \A r \in RoleSet : radio'[r].sock) => ~Tick]_vars

\* Sync is on again: a peer was sent a command before its present socket was
\* made, so an earlier socket was lost (sync went off) and a later tick made
\* the socket again and restored sync.
C6_Witness ==
  /\ sync_on /\ BothSocks /\ wanted_sync
  /\ \E r \in RoleSet :
       /\ 0 < radio[r].send_timestamp
       /\ radio[r].send_timestamp < radio[r].recon_timestamp

\* No set command is written to this peer that its own nudges or an earlier
\* set would explain: nothing accumulated, nothing sent, no set pending.
Quiet(rdo) ==
  /\ rdo.freq_delta = 0
  /\ rdo.freq_delta_sent = 0
  /\ rdo.freq_sent = None
  /\ rdo.command # None => IsQueryCmd(Val(rdo.command))

C8_QueryNeverOverwrites ==
  [][\A r \in RoleSet :
       ~(/\ radio[r].command # None
         /\ IsSetCmd(Val(radio[r].command))
         /\ radio'[r].command # None
         /\ IsQueryCmd(Val(radio'[r].command))
         /\ \/ wire'[r] = <<>>
            \/ wire'[r][Len(wire'[r])] # Val(radio[r].command))]_vars

\* A socket of an enabled peer goes away in this step (hangup, error or EOF).
SocketLost(r) ==
  radio[r].sock /\ ~radio'[r].sock /\ r \in devices' /\ ~shut'

\* C9 as stated: when a peer's socket is lost the peer's state is zeroed.
C9_SocketLossZeroesPeer ==
  [][\A r \in RoleSet :
       SocketLost(r) =>
         /\ radio'[r].freq_cur = None
         /\ radio'[r].freq_sent = None
         /\ radio'[r].freq_delta = 0
         /\ radio'[r].freq_delta_sent = 0
         /\ radio'[r].command = None
         /\ radio'[r].recv_buf = <<>>
         /\ radio'[r].is_busy = None]_vars

\* C9, amended: a socket loss empties the receive buffer and turns sync off
\* and zeroes nothing else: with no reply waiting to be read, freq_cur and
\* freq_prev stay, the pending command stays (unless freq_cur is unknown and
\* the tick enqueues the initial query), and freq_sent and the deltas stay
\* unless the reply timeout of the same tick clears them with is_busy.
C9_SocketLossKeepsPeer ==
  [][\A r \in RoleSet :
       SocketLost(r) =>
         /\ radio'[r].recv_buf = <<>>
         /\ ~sync_on'
         /\ inbox[r] = <<>> =>
              /\ radio'[r].freq_cur = radio[r].freq_cur
              /\ radio'[r].freq_prev = radio[r].freq_prev
              /\ radio[r].freq_cur # None
                   => radio'[r].command = radio[r].command
              /\ radio'[r].is_busy = radio[r].is_busy
                   => /\ radio'[r].freq_sent = radio[r].freq_sent
                      /\ radio'[r].freq_delta = radio[r].freq_delta
                      /\ radio'[r].freq_delta_sent = radio[r].freq_delta_sent]_vars

\* An enabled peer without socket still has its frequency, a set it sent and
\* its in-flight marker.
C9_Witness ==
  /\ ~shut
  /\ \E r \in devices :
       /\ ~radio[r].sock
       /\ radio[r].freq_cur # None
       /\ radio[r].freq_sent # None
       /\ radio[r].is_busy # None

\* C10: a tick that finds a peer's command in flight for longer than the
\* peer's timeout, with no reply to read and the socket kept, clears the
\* in-flight marker and sets freq_delta_sent and freq_delta to 0.
C10_TimeoutClears ==
  [][\A r \in RoleSet :
       (/\ radio[r].sock /\ radio'[r].sock
        /\ radio'[r].recon_timestamp = radio[r].recon_timestamp
        /\ radio[r].is_busy # None
        /\ now' - Val(radio[r].is_busy) > timeout(r)
        /\ inbox[r] = <<>>
        /\ ~raised'
        /\ ~(/\ radio'[r].is_busy = None
             /\ radio'[r].freq_delta_sent = 0
             /\ radio'[r].freq_delta = 0))
       => ~Tick]_vars

\* The lines the engine treats as a protocol error: an error report, a report
\* without code, text that is not an integer.
ErrorLines == {LineRprt(5), LineBareRprt, LineJunk}

\* C11: whenever a peer with a command in flight has a protocol-error line
\* waiting (RPRT n with n # 0, RPRT without code, or a non-integer line),
\* reading it sets freq_sent to None and freq_delta to 0 and clears the
\* in-flight marker, and leaves freq_cur and sync_on as they were.
C11_ErrorReplyClears ==
  \A r \in RoleSet :
    (/\ radio[r].sock
     /\ radio[r].is_busy # None
     /\ radio[r].recv_buf = <<>>
     /\ inbox[r] \in ErrorLines)
    => LET a == process_incoming(Eng, r, "ok") IN
       /\ a.radio[r].freq_sent = None
       /\ a.radio[r].freq_delta = 0
       /\ a.radio[r].is_busy = None
       /\ a.radio[r].freq_cur = radio[r].freq_cur
       /\ a.sync_on = sync_on

\* C12: no runtime error escapes tick(), whatever the peers reply and
\* whatever the sockets do.
C12_NoErrorEscapesTick == ~raised

\* What a nudge call may do when `target` is the set holding the peer it is
\* routed to (empty: dropped): only that peer's freq_delta changes, by one
\* step up or down, or not at all when the sum would exceed the cap.
NudgeEffect(target) ==
  /\ UNCHANGED <<sync_on, wanted_sync, shut, sync_time, sync_lead, ifreq,
                 devices, index, now, raised, wire, inbox, last_call>>
  /\ \A r \in RoleSet :
       [radio'[r] EXCEPT !.freq_delta = radio[r].freq_delta] = radio[r]
  /\ \A r \in RoleSet \ target :
       radio'[r].freq_delta = radio[r].freq_delta
  /\ \A r \in target :
       \E d \in {get_step, -get_step} :
         radio'[r].freq_delta =
           IF Abs(radio[r].freq_delta + d) > get_step * nudge_buffer
           THEN radio[r].freq_delta
           ELSE radio[r].freq_delta + d

\* C13 as stated: a nudge goes to the Rig if the Rig socket is up, otherwise
\* to the SDR if the SDR socket is up, otherwise nowhere; it changes nothing
\* but that peer's freq_delta, and not even that when the cap would be passed.
C13_NudgeRoutedBySocket ==
  [][NudgeEffect(IF radio["rig"].sock THEN {"rig"}
                 ELSE IF radio["gqrx"].sock THEN {"gqrx"} ELSE {})
     \/ ~Nudge]_vars

\* A peer a nudge can be routed to: its socket is up and it is enabled.
Nudgeable(r) == radio[r].sock /\ r \in devices

\* C13, amended: a nudge goes to the Rig if the Rig socket is up and the Rig
\* is enabled, otherwise to the SDR if the SDR socket is up and the SDR is
\* enabled, otherwise nowhere; the rest as stated.
C13_NudgeRoutedBySocketAndEnabled ==
  [][NudgeEffect(IF Nudgeable("rig") THEN {"rig"}
                 ELSE IF Nudgeable("gqrx") THEN {"gqrx"} ELSE {})
     \/ ~Nudge]_vars

\* A nudge has gone to the SDR while the Rig socket was up, the Rig having
\* been disabled.
C13_Witness ==
  /\ radio["rig"].sock /\ "rig" \notin devices
  /\ radio["gqrx"].freq_delta # 0

\* C14: in IFreq mode the frequency query "f" is never pending for the SDR
\* and never among the commands the SDR has been sent.
C14_IFreqNoFreqQueryToSdr ==
  ifreq # None =>
    /\ radio["gqrx"].command # Some(CmdQueryF)
    /\ \A i \in 1..Len(wire["gqrx"]) : wire["gqrx"][i] # CmdQueryF

\* In IFreq mode the SDR holds the LO query it was sent, while the Rig has
\* reported its frequency.
C14_Witness ==
  /\ ifreq # None
  /\ radio["gqrx"].sock
  /\ radio["gqrx"].send_timestamp > 0
  /\ wire["gqrx"] = <<CmdQueryLO>>
  /\ radio["rig"].freq_cur # None

\* The peer keeps its socket and stays enabled through the step.
StaysUp(r) ==
  /\ radio[r].sock /\ radio'[r].sock
  /\ radio'[r].recon_timestamp = radio[r].recon_timestamp
  /\ r \in devices /\ r \in devices'

\* The command is the newest one the peer holds after the step.
SentNow(r, cmd) ==
  wire'[r] # <<>> /\ wire'[r][Len(wire'[r])] = cmd

\* C15: in IFreq mode, with sync on and both peers connected, (a) a tick in
\* which the Rig's confirmed frequency changes to R, with lo = R - |ifreq|
\* different from the SDR's freq_cur, leaves "LNB_LO <lo>" pending for the
\* SDR; (b) a pending "LNB_LO <lo>" stays pending until it is sent; (c) the
\* "RPRT 0" read while that set is in flight makes the SDR's freq_cur lo.
C15_IFreqLoFollowsRig ==
  [][(ifreq # None /\ StaysUp("rig") /\ StaysUp("gqrx") /\ ~raised' /\ ~shut')
     => /\ (/\ sync_on /\ sync_on'
            /\ radio'["rig"].freq_cur # radio["rig"].freq_cur
            /\ Some(lo_freq(Val(radio'["rig"].freq_cur)))
                 # radio'["gqrx"].freq_cur)
           => radio'["gqrx"].command =
                Some(build_cat_cmd(lo_freq(Val(radio'["rig"].freq_cur)), TRUE))
        /\ (/\ radio["gqrx"].command # None
            /\ IsSetCmd(Val(radio["gqrx"].command))
            /\ Val(radio["gqrx"].command).verb = "LNB_LO")
           => \/ radio'["gqrx"].command = radio["gqrx"].command
              \/ SentNow("gqrx", Val(radio["gqrx"].command))
        /\ (/\ radio["gqrx"].is_busy # None
            /\ radio["gqrx"].freq_sent # None
            /\ radio["gqrx"].recv_buf = <<>>
            /\ inbox["gqrx"] = LineRprt(0)
            /\ inbox'["gqrx"] = <<>>)
           => radio'["gqrx"].freq_cur = radio["gqrx"].freq_sent]_vars

\* C16: in Direct mode, with sync on, both peers connected and both
\* frequencies known, (a) a tick in which the Rig's frequency changes to X,
\* outside the debounce window of an SDR-led sync, leaves "F X" pending for
\* the SDR; (b) the pending "F X" of a Rig-led sync stays pending until it is
\* sent, unless a newer Rig frequency replaces it; (c) the "RPRT 0" read while
\* that set is in flight makes the SDR's freq_cur X.
C16_DirectSdrFollowsRig ==
  [][(/\ ifreq = None /\ StaysUp("rig") /\ StaysUp("gqrx")
      /\ ~raised' /\ ~shut'
      /\ radio["gqrx"].freq_cur # None /\ radio'["gqrx"].freq_cur # None
      /\ radio'["rig"].freq_cur # None)
     => /\ (/\ sync_on /\ sync_on'
            /\ radio'["rig"].freq_cur # radio["rig"].freq_cur
            /\ ~(sync_lead = Some("gqrx")
                 /\ now' - sync_time < sync_debounce_time))
           => radio'["gqrx"].command =
                Some(build_cat_cmd(Val(radio'["rig"].freq_cur), FALSE))
        /\ (/\ sync_lead = Some("rig")
            /\ radio["rig"].freq_cur # None
            /\ radio["gqrx"].freq_sent = radio["rig"].freq_cur
            /\ radio["gqrx"].command =
                 Some(build_cat_cmd(Val(radio["rig"].freq_cur), FALSE)))
           => \/ radio'["gqrx"].command = radio["gqrx"].command
              \/ SentNow("gqrx", Val(radio["gqrx"].command))
              \/ radio'["gqrx"].command =
                   Some(build_cat_cmd(Val(radio'["rig"].freq_cur), FALSE))
        /\ (/\ radio["gqrx"].is_busy # None
            /\ radio["gqrx"].freq_sent # None
            /\ radio["gqrx"].recv_buf = <<>>
            /\ inbox["gqrx"] = LineRprt(0)
            /\ inbox'["gqrx"] = <<>>)
           => radio'["gqrx"].freq_cur = radio["gqrx"].freq_sent]_vars

\* C17: in IFreq mode a Rig that no nudge has touched (nothing accumulated,
\* nothing sent and unconfirmed, no set pending) stays so in every step but a
\* nudge, and no step sends it a set: no reply or state change of the SDR
\* writes a set command to the Rig.
C17_IFreqRigNotDrivenBySdr ==
  [][(ifreq # None /\ Quiet(radio["rig"]))
     => /\ radio'["rig"].freq_delta_sent = 0
        /\ radio'["rig"].freq_sent = None
        /\ radio'["rig"].command # None
             => Val(radio'["rig"].command) = CmdQueryF
        /\ \A i \in 1..Len(wire'["rig"]) :
             IsSetCmd(wire'["rig"][i])
               => \E j \in 1..Len(wire["rig"]) : wire["rig"][j] = wire'["rig"][i]
        /\ radio'["rig"].freq_delta # 0 => Nudge]_vars

\* In IFreq mode, sync on, the SDR has reported an LO the engine has not
\* acted on, and the Rig, its own frequency known, is untouched.
C17_Witness ==
  /\ ifreq # None /\ sync_on /\ BothSocks /\ devices = RoleSet
  /\ radio["gqrx"].freq_cur # None
  /\ radio["gqrx"].freq_cur # radio["gqrx"].freq_prev
  /\ radio["rig"].freq_cur # None
  /\ radio["rig"].freq_cur = radio["rig"].freq_prev
  /\ Quiet(radio["rig"])

C19_OneRadioStaysEnabled == devices \cap RoleSet # {}

\* C20: a toggle of the only enabled radio returns False, leaves the enabled
\* set as it is and runs no subscriber; every other toggle flips the
\* membership of its tag and of no other tag, returns True and runs the
\* subscribers of that change.
C20_ToggleRefusedOrFlips ==
  [][(\A dev \in Tags :
        (last_call' # None /\ Val(last_call').dev = dev)
        => IF dev \in RoleSet /\ devices \cap RoleSet = {dev}
           THEN /\ Val(last_call').ret = Some(FALSE)
                /\ devices' = devices
                /\ Val(last_call').fired = <<>>
           ELSE /\ Val(last_call').ret = Some(TRUE)
                /\ devices' = (devices \ {dev}) \cup ({dev} \ devices)
                /\ Val(last_call').fired # <<>>)
     \/ ~RegistryToggle]_vars

\* A toggle of the last enabled radio has been refused.
C20_Witness ==
  /\ last_call # None
  /\ Val(last_call).op = "toggle"
  /\ Val(last_call).ret = Some(FALSE)
  /\ devices \cap RoleSet = {Val(last_call).dev}

\* The step leaves the engine and the enabled set as they are.
NothingChanged ==
  UNCHANGED <<radio, sync_on, wanted_sync, shut, sync_time, sync_lead,
              devices, index, raised, wire, inbox>>

\* C21: add(tag) of an enabled tag and remove(tag) of an absent tag change
\* nothing and call no subscriber; an add of an absent tag enables it and
\* calls every _on_add subscriber once, in registration order, and a remove of
\* an enabled tag disables it and calls every _on_remove subscriber once, in
\* registration order, within the call.
C21_AddRemoveIdempotent ==
  [][/\ (\A dev \in Tags :
           (last_call' # None /\ Val(last_call').dev = dev)
           => IF dev \in devices
              THEN NothingChanged /\ Val(last_call').fired = <<>>
              ELSE /\ devices' = devices \cup {dev}
                   /\ Val(last_call').fired = on_add)
        \/ ~RegistryAdd
     /\ (\A dev \in Tags :
           (last_call' # None /\ Val(last_call').dev = dev)
           => IF dev \notin devices
              THEN NothingChanged /\ Val(last_call').fired = <<>>
              ELSE /\ devices' = devices \ {dev}
                   /\ Val(last_call').fired = on_remove)
        \/ ~RegistryRemove]_vars

\* add('gqrx') has been called while gqrx was enabled and had no socket, and
\* no socket was made.
C21_Witness ==
  /\ last_call # None
  /\ Val(last_call).op = "add"
  /\ Val(last_call).dev = "gqrx"
  /\ Val(last_call).fired = <<>>
  /\ "gqrx" \in devices
  /\ ~radio["gqrx"].sock

\* A tick that drains results: only tick() empties the queue.
Draining == ~sched.shutdown /\ sched.result_queue # <<>> /\ sched'.result_queue = <<>>

ResultsOf(fn) ==
  {i \in 1..Len(sched.result_queue) : sched.result_queue[i].fn = fn}

\* The result's task is gone or has another generation.
Stale(item) ==
  \/ sched.tasks[item.fn] = None
  \/ item.generation # Val(sched.tasks[item.fn]).generation

\* C22: a tick that drains only stale results of a probe leaves the probe
\* unregistered if it was, and otherwise leaves its task's failures, interval
\* and last_duration alone and its next_run where it was or where this
\* tick's dispatch put it; and the result of an invocation whose task
\* unregister_tag removed is stale for every task registered afterwards.
C22_StaleResultDiscarded ==
  [][Draining =>
       /\ \A fn \in Fns :
            (ResultsOf(fn) # {} /\ \A i \in ResultsOf(fn) : Stale(sched.result_queue[i]))
            => IF sched.tasks[fn] = None
               THEN sched'.tasks[fn] = None
               ELSE /\ sched'.tasks[fn] # None
                    /\ Val(sched'.tasks[fn]).failures = Val(sched.tasks[fn]).failures
                    /\ Val(sched'.tasks[fn]).interval = Val(sched.tasks[fn]).interval
                    /\ Val(sched'.tasks[fn]).last_duration
                         = Val(sched.tasks[fn]).last_duration
                    /\ Val(sched'.tasks[fn]).next_run
                         \in {Val(sched.tasks[fn]).next_run,
                              sched'.now + Val(sched.tasks[fn]).interval}
       /\ \A i \in 1..Len(sched.result_queue) :
            sched.result_queue[i].id \in sched.orphans => Stale(sched.result_queue[i])
    ]_vars

\* The result of an invocation whose task was unregistered has been drained
\* while its probe was registered again with a new invocation out, and the
\* new task has no failure and its first interval.
C22_Witness ==
  \E id \in sched.orphans :
    /\ sched.futures[id].state # "running"
    /\ sched.result_queue = <<>>
    /\ sched.tasks[sched.futures[id].fn] # None
    /\ Val(sched.tasks[sched.futures[id].fn]).future # None
    /\ Val(sched.tasks[sched.futures[id].fn]).failures = 0
    /\ Val(sched.tasks[sched.futures[id].fn]).interval = reconnect_interval
\* What an unregister_tag(tag) step does to the tasks, given which tags match.
RemovesExactly(Matches(_)) ==
  /\ sched'.generation = sched.generation + 1
  /\ \A fn \in Fns :
       sched'.tasks[fn] = IF sched.tasks[fn] # None /\ Matches(Val(sched.tasks[fn]).tag)
                          THEN None
                          ELSE sched.tasks[fn]

\* C23 as stated: unregister_tag(tag) removes exactly the tasks whose tag
\* equals the supplied tag or is a prefix of it, keeps the others and
\* increments the generation counter.
C23_RemovesPrefixesOfSupplied ==
  [][sched'.generation # sched.generation =>
       \A tag \in SchedTags :
         SchedUnregisterWith(tag) =>
           LET Matches(t) == t = tag \/ StartsWith(tag, t) IN RemovesExactly(Matches)
    ]_vars

\* C23: unregister_tag(tag) removes exactly the tasks whose tag equals the
\* supplied tag or starts with it, keeps the others and increments the
\* generation counter.
C23_RemovesTagsStartingWithSupplied ==
  [][sched'.generation # sched.generation =>
       \A tag \in SchedTags :
         SchedUnregisterWith(tag) =>
           LET Matches(t) == t = tag \/ StartsWith(t, tag) IN RemovesExactly(Matches)
    ]_vars

\* unregister_tag has removed a task that had an invocation out and has kept
\* the other probe's task.
C23_Witness ==
  /\ sched.generation > 0
  /\ \E id \in sched.orphans : sched.tasks[sched.futures[id].fn] = None
  /\ \E fn \in Fns : sched.tasks[fn] # None
\* The invocations of a registered task whose probe has not finished yet.
RunningOf(fn) ==
  {id \in 1..Len(sched.futures) : /\ sched.futures[id].fn = fn
                                   /\ sched.futures[id].state = "running"
                                   /\ id \notin sched.orphans}

\* C24: under any interleaving of worker completion, dispatch and result
\* draining, a registered task never has two invocations of its probe
\* running at the same time.
C24_OneInvocationPerTask ==
  \A fn \in Fns : sched.tasks[fn] # None => Cardinality(RunningOf(fn)) <= 1
\* C25: without jitter, a tick that drains one result of a backoff-enabled
\* task, of the task's generation, leaves the task with one failure more and
\* interval min(base * 2^failures, backoff_cap) if the probe failed, and with
\* no failure and the base interval if it succeeded.
C25_BackoffDoublesUpToCap ==
  [][(Draining /\ sched.jitter = 0) =>
       \A fn \in Fns :
         (/\ Cardinality(ResultsOf(fn)) = 1
          /\ sched.tasks[fn] # None
          /\ Val(sched.tasks[fn]).backoff
          /\ \A i \in ResultsOf(fn) : ~Stale(sched.result_queue[i]))
         => LET item == sched.result_queue[CHOOSE i \in ResultsOf(fn) : TRUE]
                k == Val(sched.tasks[fn]).failures + 1
            IN /\ sched'.tasks[fn] # None
               /\ IF item.success
                  THEN /\ Val(sched'.tasks[fn]).failures = 0
                       /\ Val(sched'.tasks[fn]).interval = reconnect_interval
                  ELSE /\ Val(sched'.tasks[fn]).failures = k
                       /\ Val(sched'.tasks[fn]).interval
                            = Min(reconnect_interval * Pow2(k), sched.backoff_cap)
    ]_vars

\* Under the default cap of 60 s and no jitter a probe has failed three
\* times in a row and its interval is 24 s.
C25_Witness ==
  /\ sched.jitter = 0
  /\ sched.backoff_cap = backoff_cap
  /\ \E fn \in Fns : /\ sched.tasks[fn] # None
                      /\ Val(sched.tasks[fn]).backoff
                      /\ Val(sched.tasks[fn]).failures = 3
                      /\ Val(sched.tasks[fn]).interval = 240
\* A register or unregister_tag call that is not an unregister_tag.
RegisterStep ==
  sched'.calls # sched.calls /\ sched'.generation = sched.generation

\* What registering an already registered probe does: the other tasks stay,
\* the task gets the tag and the backoff flag of the call and, if
\* run_immediately, next_run = now; every other field stays.
Refreshed(fn, tag, backoff, run_immediately) ==
  /\ \A other \in Fns \ {fn} : sched'.tasks[other] = sched.tasks[other]
  /\ sched'.tasks[fn] =
       Some([Val(sched.tasks[fn])
               EXCEPT !.tag = IF tag = None THEN default_tag(fn) ELSE Val(tag),
                      !.backoff = backoff,
                      !.next_run = IF run_immediately THEN sched.now ELSE @])

\* C26 as stated: registering a probe that is already registered refreshes
\* its task in every state of the scheduler.
C26_RegisterRefreshesAlways ==
  [][RegisterStep =>
       \A fn \in Fns, tag \in {None, Some(TagRig)}, backoff \in BOOLEAN,
          run_immediately \in BOOLEAN :
         (sched.tasks[fn] # None /\ SchedRegisterWith(fn, tag, backoff, run_immediately))
         => Refreshed(fn, tag, backoff, run_immediately)
    ]_vars

\* C26: registering a probe that is already registered refreshes its task
\* (tag, backoff flag and, if requested, next_run; failures, interval,
\* generation and the other tasks stay) while the scheduler is not shut
\* down, and changes no task after shutdown.
C26_RegisterRefreshesUnlessShutDown ==
  [][RegisterStep =>
       \A fn \in Fns, tag \in {None, Some(TagRig)}, backoff \in BOOLEAN,
          run_immediately \in BOOLEAN :
         (sched.tasks[fn] # None /\ SchedRegisterWith(fn, tag, backoff, run_immediately))
         => IF sched.shutdown
            THEN sched'.tasks = sched.tasks
            ELSE Refreshed(fn, tag, backoff, run_immediately)
    ]_vars

\* A task that has failed once and doubled its interval is due now: it was
\* registered again with run_immediately after the failure, and kept its
\* failure count and interval.
C26_Witness ==
  /\ ~sched.shutdown
  /\ \E fn \in Fns : /\ sched.tasks[fn] # None
                      /\ Val(sched.tasks[fn]).failures = 1
                      /\ Val(sched.tasks[fn]).interval = 2 * reconnect_interval
                      /\ Val(sched.tasks[fn]).next_run = sched.now
                      /\ Val(sched.tasks[fn]).future = None
\* The step after each step of the cycle 10, 100, 1000, 10000, 10.
StepAfter(value) ==
  CASE value = 10 -> 100
    [] value = 100 -> 1000
    [] value = 1000 -> 10000
    [] value = 10000 -> 10

\* C27: the index is always a valid position of the step list; next_step()
\* advances it modulo the length of the list, so that get_step() goes
\* 10, 100, 1000, 10000, 10; set_step(value) makes get_step() return value
\* when value is one of the four steps and leaves the step alone otherwise.
C27_StepCycler ==
  [][/\ index \in 0..(Len(STEPS) - 1)
     /\ index' \in 0..(Len(STEPS) - 1)
     /\ StepNext => /\ index' = (index + 1) % Len(STEPS)
                    /\ STEPS[index' + 1] = StepAfter(STEPS[index + 1])
     /\ \A value \in StepValues :
          SetStepTo(value) =>
            STEPS[index' + 1] = IF value \in {10, 100, 1000, 10000}
                                THEN value
                                ELSE STEPS[index + 1]
    ]_vars

\* The cycler stands at 10 Hz: it has wrapped around from 10000, or
\* set_step(10) has put it there.
C27_Witness == index = 0 /\ get_step = 10 /\ bands = NewBands
\* The bands of the table (1-based) that contain f, that start above f and
\* that end below f.
BandsAround(f) == {i \in 1..Len(DEFAULT_BANDS) :
                    DEFAULT_BANDS[i].start <= f /\ f <= DEFAULT_BANDS[i].end}
BandsAbove(f) == {i \in 1..Len(DEFAULT_BANDS) : DEFAULT_BANDS[i].start > f}
BandsBelow(f) == {i \in 1..Len(DEFAULT_BANDS) : DEFAULT_BANDS[i].end < f}
Lowest(S) == CHOOSE i \in S : \A j \in S : i <= j
Highest(S) == CHOOSE i \in S : \A j \in S : i >= j

\* C28: band_name(f) is the name of band i exactly when
\* start[i] <= f <= end[i], and "OOB" when no band contains f.
C28_BandNameIffInside ==
  (bands.call # None /\ Val(bands.call).op = "band_name") =>
    LET c == Val(bands.call) IN
    /\ \A i \in 1..Len(DEFAULT_BANDS) :
         (c.ret = DEFAULT_BANDS[i].name) <=> (i \in BandsAround(c.f))
    /\ (c.ret = "OOB") <=> (BandsAround(c.f) = {})

\* band_name has been asked for the last frequency of 160m and has answered
\* "160m".
C28_Witness ==
  /\ bands.call # None
  /\ Val(bands.call).op = "band_name"
  /\ Val(bands.call).f = DEFAULT_BANDS[1].end
  /\ Val(bands.call).ret = "160m"

\* C29: step(f, direction) returns nothing and beeps once when no band
\* starts above f (going up) or ends below f (going down); otherwise it
\* returns, without a beep, the preferred frequency of the lowest band above
\* f or of the highest band below f.
C29_StepToNeighbourOrBeep ==
  (bands.call # None /\ Val(bands.call).op = "step") =>
    LET c == Val(bands.call)
        beyond == IF c.direction > 0 THEN BandsAbove(c.f) ELSE BandsBelow(c.f)
        nearest == IF c.direction > 0 THEN Lowest(beyond) ELSE Highest(beyond)
    IN IF beyond = {}
       THEN c.ret = None /\ c.beeps = 1
       ELSE c.ret = Some(bands.goto[nearest]) /\ c.beeps = 0

\* step has been called going down from the gap between 160m and 80m and has
\* returned the preferred frequency of 160m.
C29_Witness ==
  /\ bands.call # None
  /\ Val(bands.call).op = "step"
  /\ Val(bands.call).direction < 0
  /\ BandsAround(Val(bands.call).f) = {}
  /\ BandsBelow(Val(bands.call).f) = {1}
  /\ Val(bands.call).ret = Some(bands.goto[1])
  /\ Val(bands.call).beeps = 0

\* C30: whenever step(f, direction) is called with f inside band i, in
\* either direction and also at the extreme band in that direction, band
\* i's preferred frequency is f afterwards and no other band's changes.
C30_StepRemembersFrequency ==
  [][\A f \in BandFreqs, direction \in {1, -1} :
       (BandStepWith(f, direction) /\ BandsAround(f) # {})
       => \A i \in 1..Len(DEFAULT_BANDS) :
            bands'.goto[i] = IF i \in BandsAround(f) THEN f ELSE bands.goto[i]
    ]_vars
\* The position of a step in an order, and a log whose steps follow the
\* order.
PositionIn(order, name) == CHOOSE i \in 1..Len(order) : order[i] = name
FollowsOrder(log, order) ==
  \A i, j \in 1..Len(log) :
    i < j => PositionIn(order, log[i]) < PositionIn(order, log[j])

\* The steps every tick that can follow this state runs for role r.
TickLogs(r) ==
  {tick_role_steps(Eng, r, t, kind) :
     t \in Times, kind \in {x \in env.io \cup {"ok"} : Applicable(r, x)}}

Opens(r, t) == ~radio[r].sock /\ reconnect_socket(Eng, t, r).radio[r].sock

LineAppended == Len(freq_log'.lines) = Len(freq_log.lines) + 1

\* The line this step appends says what the latest line says although the
\* Rig frequency has been the same ever since.
LineRepeated ==
  /\ freq_log.lines # <<>>
  /\ freq_log.steady
  /\ radio'["rig"].freq_cur = radio["rig"].freq_cur
  /\ freq_log'.lines[Len(freq_log'.lines)]
       = freq_log.lines[Len(freq_log.lines)]

\* C33: with the frequency log enabled, a step appends at most one line, and
\* only when the Rig frequency's latest observed change is
\* wait_before_log_rigfreq old and has not been reported yet; no line
\* repeats the latest one while the Rig frequency stays unchanged.
C33_OneLinePerChange ==
  [][/\ Len(freq_log'.lines) \in {Len(freq_log.lines),
                                  Len(freq_log.lines) + 1}
     /\ LineAppended =>
          /\ freq_log'.last_rig_change # None
          /\ now' - Val(freq_log'.last_rig_change) >= wait_before_log_rigfreq
          /\ ~freq_log.rig_reported
          /\ ~LineRepeated]_vars

\* ------------------------------------------------- what freq_sent stands for
\* The command slot holds a set command (F or LNB_LO) for frequency f.
SetPending(r, f) ==
  /\ radio[r].command # None
  /\ IsSetCmd(Val(radio[r].command))
  /\ Val(radio[r].command).arg = Some(f)

\* A command has been written to the peer and not been answered or timed
\* out yet.
InFlight(r) == radio[r].is_busy # None

\* C34: for each peer, in every reachable state, freq_sent # None implies
\* that a set command carrying exactly that frequency is pending in the
\* command slot or a command is in flight awaiting its acknowledgement.
C34_SentMeansSetUnderWay ==
  \A r \in RoleSet :
    radio[r].freq_sent # None =>
      SetPending(r, Val(radio[r].freq_sent)) \/ InFlight(r)

\* C35: whenever a peer with a command in flight has an integer line waiting,
\* reading it leaves that peer's freq_cur equal to the reported value,
\* whatever was replied before and whether sync is on or off.
C35_ReplySetsFreqCur ==
  \A r \in RoleSet : \A f \in Freqs :
    (/\ radio[r].sock
     /\ radio[r].is_busy # None
     /\ radio[r].recv_buf = <<>>
     /\ inbox[r] = LineInt(f))
    => process_incoming(Eng, r, "ok").radio[r].freq_cur = Some(f)

\* C36: for each peer, in every reachable state, freq_delta_sent is non-zero
\* only while the set command carrying that delta is pending in the command
\* slot or a command is in flight (so that no "RPRT 0" of a later set can
\* subtract a left-over delta).
C36_DeltaSentOnlyWhileSetUnderWay ==
  \A r \in RoleSet :
    radio[r].freq_delta_sent # 0 =>
      \/ radio[r].freq_sent # None /\ SetPending(r, Val(radio[r].freq_sent))
      \/ InFlight(r)

\* C37: in every reachable state sync_on is false while the user's wish
\* (_wanted_sync) is false: after set_sync_mode(false) neither ticks nor
\* socket losses nor reconnections turn sync on again.
C37_SyncOffWhileUnwanted == ~wanted_sync => ~sync_on

\* The user has switched sync off, and both sockets are up, one of them
\* opened later than the other (after a loss or a toggle).
C37_Witness ==
  /\ ~wanted_sync
  /\ ~sync_on
  /\ BothSocks
  /\ radio["rig"].recon_timestamp # radio["gqrx"].recon_timestamp

\* ------------------------------------------------------- disabled peers
\* A command goes out to the peer in this step: the peer holds a new
\* command, or the in-flight marker is stamped anew.
Sends(r) ==
  \/ wire'[r] # wire[r] /\ wire'[r] # <<>> /\ Len(wire'[r]) >= Len(wire[r])
  \/ radio'[r].is_busy # None /\ radio'[r].is_busy # radio[r].is_busy

\* C38: for a peer whose role is disabled, no step sends it a command, no
\* nudge changes its freq_delta, and a tick that ends without an exception
\* leaves it without a socket.
C38_DisabledPeerLeftAlone ==
  [][\A r \in RoleSet \ devices :
       /\ ~Sends(r)
       /\ radio'[r].freq_delta # radio[r].freq_delta => ~Nudge
       /\ (radio'[r].sock /\ ~raised') => ~Tick]_vars

\* The Rig was disabled while connected, nothing else disturbed the run, and
\* a tick has closed its socket.
C38_Witness ==
  /\ "rig" \notin devices
  /\ ~radio["rig"].sock
  /\ radio["rig"].recon_timestamp > 0
  /\ spent = 1
  /\ ~shut

\* --------------------------------------------------- shutdown of one role
\* C39: when a radio is removed from the registry and shutdown(role) runs for
\* it, that peer's socket is closed and its state reset, the other peer's
\* socket and state are what they were, and the shutdown flag stays down (so
\* that later ticks still run).  Removing the Rig without a rig checker
\* calls no shutdown and leaves the Rig's state as it is.
C39_ShutdownOfOneRole ==
  [][\A r \in devices \ devices' :
       LET a == shutdown_role(Eng, r) IN
       /\ a.radio[r] = InitPeer
       /\ a.wire[r] = <<>> /\ a.inbox[r] = <<>>
       /\ a.radio[Other(r)] = radio[Other(r)]
       /\ a.wire[Other(r)] = wire[Other(r)]
       /\ a.inbox[Other(r)] = inbox[Other(r)]
       /\ radio'[r] = a.radio[r] \/ (r = "rig" /\ radio'[r] = radio[r])
       /\ radio'[Other(r)] = radio[Other(r)]
       /\ wire'[Other(r)] = wire[Other(r)]
       /\ inbox'[Other(r)] = inbox[Other(r)]
       /\ shut' = shut /\ ~shut']_vars

\* The SDR has just been removed and shut down while the Rig is connected
\* and has reported its frequency.
C39_Witness ==
  /\ devices = {"rig"}
  /\ radio["gqrx"] = InitPeer
  /\ radio["rig"].sock
  /\ radio["rig"].freq_cur # None
  /\ last_call # None
  /\ Val(last_call).op = "toggle" /\ Val(last_call).dev = "gqrx"
  /\ ~shut

\* ------------------------------------------- invocations across registrations
\* Every invocation of the probe that has not finished yet, whether its task
\* is still registered or was removed by unregister_tag.
StillRunning(fn) ==
  {id \in 1..Len(sched.futures) : /\ sched.futures[id].fn = fn
                                   /\ sched.futures[id].state = "running"}

\* C40: in every reachable state, a probe with an invocation that was
\* running when unregister_tag removed its task, and is running still, has
\* no other invocation running: registering the probe again dispatches
\* nothing new before the earlier invocation has finished.
C40_NoOverlapAcrossRegistrations ==
  \A fn \in Fns :
    (StillRunning(fn) \cap sched.orphans # {})
      => Cardinality(StillRunning(fn)) <= 1

====
